---- MODULE Spec2Model ----
(***************************************************************************)
(* Model of J.A.R.V.I.S.: the capture callback and its queue               *)
(* (src/core/audio.py), the utterance recorder (record_speech), the wake   *)
(* listener (src/core/wake_word.py), the intent router                     *)
(* (src/tools/router.py) and the main loop with startup, recovery and      *)
(* shutdown (src/main.py), and the reply generation (src/core/nlu.py).     *)
(*                                                                         *)
(* Spec is the capture queue with the recorder and the listener, WakeSpec  *)
(* the listener with the text of the transcription, RouterSpec the router  *)
(* on utterance and answer strings, MainSpec the main thread of main(),    *)
(* NluSpec the reply generation (src/core/nlu.py, think), CollaboratorSpec *)
(* one route() followed by think() calls, FilterSpec the high-pass filter  *)
(* of the callback on blocks of samples, RecoverySpec the main thread with *)
(* think() inside the reply step, DashSpec the dashboard's event queue     *)
(* (src/dashboard/events.py, emit and get_event), TimerSpec the timers of  *)
(* the reminder tool (src/tools/reminder.py) with their threads.           *)
(*                                                                         *)
(* Two threads: the sounddevice audio thread, which runs _audio_callback,  *)
(* and the main thread, which calls get_audio_chunk, flush_queue,          *)
(* record_speech and listen_and_detect.  They share audio_queue only.      *)
(*                                                                         *)
(* Time is counted in ticks.  One tick is the chunk interval and also the  *)
(* 1.0 s timeout of the recorder's queue read; the durations of the        *)
(* recorder are the configured numbers of seconds read as ticks.  Code     *)
(* that does not wait takes no time: the clock advances only while the     *)
(* recorder waits on an empty queue.                                       *)
(***************************************************************************)
EXTENDS Integers, Sequences, FiniteSets

\* ---- bounds of the model ------------------------------------------------
MaxPublished == 4      \* chunks the callback publishes in one behaviour
MaxTime == 10          \* last tick of the clock
MaxStreams == 3        \* input streams the process opens in one behaviour
MaxChunks == 3         \* blocks the device delivers to one capture
EventQueueSize == 2    \* capacity of the dashboard's event queue; the code
                       \* has queue.Queue(maxsize=500)
MaxEvents == 4         \* emit() calls
MaxTimers == 2         \* timers and reminders set
MaxClock == 3          \* seconds that pass

\* ---- program constants --------------------------------------------------
maxsize == 0                   \* queue.Queue(): no capacity
silence_threshold == 30
max_recording_seconds == 8
silence_stop == 2
min_recording_seconds == 2
no_speech_grace == 8           \* "elif elapsed > 8.0"
get_timeout == 1               \* audio_queue.get(timeout=1.0)
chunk_interval == 1            \* chunk_duration_ms, one tick
listen_duration_x2 == 5        \* listen_duration_sec 2.5, doubled
chunk_duration_x2 == 2 * chunk_interval
min_rms == 15
peak_rms == 80

\* RMS energies a filtered chunk can have: silence, speech below the peak
\* gate, speech with a peak.
EnergyLevels == {0, 40, 100}

NoChunk == [id |-> 0, energy |-> 0]
NoEvent == 0
NoTime == -1

VARIABLES
    audio_queue,        \* self.audio_queue, oldest chunk first
    published,          \* number of chunks the callback has produced
    cb_held,            \* chunk a callback blocked in put() holds, or NoChunk
    pc,                 \* position of the main thread
    flush_ret,          \* where flush_queue returns to
    now,                \* time.time()
    all_chunks,         \* record_speech: chunks collected, with read time
    speech_started,
    speech_start_time,
    silence_start,
    recording_start,
    rs_result,          \* what record_speech returned
    rs_stop,            \* which exit record_speech took
    chunk_energies,     \* listen_and_detect: RMS of the window's chunks
    transcribe_calls,   \* mlx_whisper.transcribe calls of this listen
    ld_result,          \* what listen_and_detect returned
    received,           \* ids of the chunks the consumer obtained, in order
    flush_mark,         \* published when flush_queue was last called
    first_after_flush,  \* id of the first chunk obtained since then, or 0
    rs_call_mark,       \* published when record_speech was called
    rs_call_time,       \* now when record_speech was called
    ld_heard,           \* listen_and_detect: what transcribe returned
    rt_pc,              \* route(): position of the call
    user_text,          \* route(): its argument
    keyword_match,      \* route(): what _keyword_route returned
    llm_calls,          \* requests.post calls of this route()
    llm_response,       \* what the collaborator answered
    cl_result,          \* what classify returned or raised
    last_route,         \* self.last_route
    rt_entry_route,     \* self.last_route when this route() was called
    handler_calls,      \* handler.execute calls of this route()
    rt_result,          \* what route() returned
    rt_status,          \* "returned", or the exception that left route()
    m_pc,               \* main(): position of the main thread
    m_site,             \* main(): which speak the thread is at or was at last
    streams,            \* state of every input stream opened so far
    exit_cause,         \* why the process ended, "" while it runs
    say_running,        \* the "say" child process is speaking
    unflushed,          \* speech was output since the last flush_queue()
    read_unflushed,     \* the wake listener read chunks in that condition
    read_after,         \* the speak that preceded the last chunk read
    m_fault,            \* the fault the main loop caught last
    in_flight,          \* utterances recorded whose processing has not ended
    wake_pending,       \* a wake trigger whose cycle has not ended
    abandoned,          \* the queue may hold audio of a cycle abandoned
                        \* after its recording
    read_abandoned,     \* the wake listener read chunks in that condition
    m_fault_site,       \* the step of the main loop that raised m_fault
    th_pc,              \* think(): position of the call
    th_user_input,      \* think(): its argument user_input
    th_raw,             \* think(): its argument raw
    th_attempt,         \* _call_ollama: the loop variable attempt
    generate_calls,     \* requests.post calls of this think()
    th_reply,           \* what the collaborator answered last
    th_result,          \* what think() returned
    th_status,          \* "returned", or the exception that left think()
    hp_prev_raw,        \* self._hp_prev_raw
    hp_prev_filt,       \* self._hp_prev_filt, in units of 1/Scale
    raw_in,             \* samples the device delivered to this capture
    filtered_chunks,    \* chunks of samples on the queue, oldest first
    seen_chunks,        \* chunks of samples the consumers obtained
    event_queue,        \* _event_queue, oldest event first
    em_pc,              \* emit(): position of each emitter's call
    em_event,           \* emit(): its argument event
    em_status,          \* "returned", or the exception that left emit()
    em_enqueued,        \* this emit() has put its event on the queue
    emitted,            \* emit() calls so far
    dash_state,         \* _state: the cumulative counters
    dropped_events,     \* ids of the events emit() took off the queue
    delivered,          \* ids of the events get_event() returned
    ge_result,          \* what get_event() returned last
    active_timers,      \* self.active_timers: timer id -> its entry
    timer_counter,      \* self.timer_counter
    timer_threads,      \* the thread of each timer: position and locals
    tool_pc,            \* position of the main thread inside the tool
    tool_timer,         \* _set_timer: timer_id and total_seconds
    tool_result,        \* what the last call of the tool returned
    announced,          \* announcements each timer has made
    clock,              \* the time in seconds
    before_cancel,      \* timers set before the last _cancel_all call
    pending_at_cancel,  \* those of them that had not announced then
    late_announced      \* timers that announced after a _cancel_all that
                        \* followed their setting had returned

vars == <<audio_queue, published, cb_held, pc, flush_ret, now, all_chunks,
          speech_started, speech_start_time, silence_start, recording_start,
          rs_result, rs_stop, chunk_energies, transcribe_calls, ld_result,
          received, flush_mark, first_after_flush, rs_call_mark, rs_call_time,
          ld_heard, rt_pc, user_text, keyword_match, llm_calls, llm_response,
          cl_result, last_route, rt_entry_route, handler_calls, rt_result,
          rt_status,
          m_pc, m_site, streams, exit_cause, say_running, unflushed,
          read_unflushed, read_after, m_fault, in_flight, wake_pending,
          abandoned, read_abandoned, m_fault_site,
          th_pc, th_user_input, th_raw, th_attempt, generate_calls,
          th_reply, th_result, th_status,
          hp_prev_raw, hp_prev_filt, raw_in, filtered_chunks, seen_chunks,
          event_queue, em_pc, em_event, em_status, em_enqueued, emitted,
          dash_state, dropped_events, delivered, ge_result,
          active_timers, timer_counter, timer_threads, tool_pc, tool_timer,
          tool_result, announced, clock, before_cancel, pending_at_cancel,
          late_announced>>

recorder_vars == <<all_chunks, speech_started, speech_start_time,
                   silence_start, recording_start, rs_result, rs_stop,
                   rs_call_mark, rs_call_time>>
listener_vars == <<chunk_energies, transcribe_calls, ld_result>>
\* State of the text checks of the wake listener, of the router and of the
\* main loop: the capture actions leave it alone.
router_vars == <<rt_pc, user_text, keyword_match, llm_calls, llm_response,
                 cl_result, last_route, rt_entry_route, handler_calls,
                 rt_result, rt_status>>
flight_vars == <<in_flight, wake_pending>>
cycle_vars == <<abandoned, read_abandoned, m_fault_site>>
main_vars == <<m_pc, m_site, streams, exit_cause, say_running, unflushed,
               read_unflushed, read_after, m_fault, flight_vars, cycle_vars>>
nlu_vars == <<th_pc, th_user_input, th_raw, th_attempt, generate_calls,
              th_reply, th_result, th_status>>
filter_vars == <<hp_prev_raw, hp_prev_filt, raw_in, filtered_chunks,
                 seen_chunks>>
dash_vars == <<event_queue, em_pc, em_event, em_status, em_enqueued, emitted,
               dash_state, dropped_events, delivered, ge_result>>
timer_vars == <<active_timers, timer_counter, timer_threads, tool_pc,
                tool_timer, tool_result, announced, clock, before_cancel,
                pending_at_cancel, late_announced>>
\* State of the dashboard's event queue and of the timers, with their
\* background threads.
thread_vars == <<dash_vars, timer_vars>>
ext_vars == <<ld_heard, router_vars, main_vars, nlu_vars, filter_vars,
              thread_vars>>
audio_vars == <<audio_queue, published, cb_held, pc, flush_ret, now,
                recorder_vars, listener_vars, received, flush_mark,
                first_after_flush>>

\* ---- queue.Queue --------------------------------------------------------
\* Queue.full(): a queue with maxsize <= 0 is never full.
QueueFullAtTwo(q) == Len(q) >= 2
QueueFull(q) == maxsize > 0 /\ Len(q) >= maxsize

\* Queue._put: append at the tail.
QueuePutDropNewest(q, c) == IF Len(q) >= 2 THEN q ELSE Append(q, c)
QueuePut(q, c) == Append(q, c)

\* Queue._get: popleft, the value returned and the queue left.
QueueGetValue(q) == Head(q)
QueueGetKeep(q) == q
QueueGetRest(q) == Tail(q)

\* ---- _audio_callback ----------------------------------------------------
\* Filters the block and puts it on the queue.  put() waits while the queue
\* is full; the callback then holds its chunk until there is room.
AudioCallback ==
    \E e \in EnergyLevels :
        LET c == IF cb_held # NoChunk THEN cb_held
                 ELSE [id |-> published + 1, energy |-> e]
        IN  /\ (cb_held # NoChunk \/ published < MaxPublished)
            /\ published' = c.id
            /\ IF QueueFull(audio_queue)
               THEN /\ cb_held' = c
                    /\ UNCHANGED audio_queue
               ELSE /\ audio_queue' = QueuePut(audio_queue, c)
                    /\ cb_held' = NoChunk
            /\ UNCHANGED <<pc, flush_ret, now, recorder_vars, listener_vars,
                           received, flush_mark, first_after_flush,
                   ext_vars>>

\* The consumer obtained chunk c.
Obtain(c) ==
    /\ received' = Append(received, c.id)
    /\ first_after_flush' = IF first_after_flush = 0 THEN c.id
                            ELSE first_after_flush

\* ---- get_audio_chunk ----------------------------------------------------
\* audio_queue.get() with no timeout: returns once a chunk is there.
GetAudioChunk ==
    /\ pc = "idle"
    /\ audio_queue # <<>>
    /\ Obtain(QueueGetValue(audio_queue))
    /\ audio_queue' = QueueGetRest(audio_queue)
    /\ UNCHANGED <<published, cb_held, pc, flush_ret, now, recorder_vars,
                   listener_vars, flush_mark,
                   ext_vars>>

\* ---- flush_queue --------------------------------------------------------
\* "while not self.audio_queue.empty()"
FlushNever(q) == FALSE
FlushContinue(q) == q # <<>>

CallFlushQueue ==
    /\ pc = "idle"
    /\ pc' = "flush_loop"
    /\ flush_ret' = "idle"
    /\ flush_mark' = published
    /\ first_after_flush' = 0
    /\ UNCHANGED <<audio_queue, published, cb_held, now, recorder_vars,
                   listener_vars, received,
                   ext_vars>>

FlushLoop ==
    /\ pc = "flush_loop"
    /\ pc' = IF FlushContinue(audio_queue) THEN "flush_get" ELSE flush_ret
    /\ UNCHANGED <<audio_queue, published, cb_held, flush_ret, now,
                   recorder_vars, listener_vars, received, flush_mark,
                   first_after_flush,
                   ext_vars>>

\* get_nowait(): pops a chunk, or raises queue.Empty, which ends the loop.
FlushGetNowait ==
    /\ pc = "flush_get"
    /\ IF audio_queue = <<>>
       THEN /\ pc' = flush_ret
            /\ UNCHANGED audio_queue
       ELSE /\ pc' = "flush_loop"
            /\ audio_queue' = QueueGetRest(audio_queue)
    /\ UNCHANGED <<published, cb_held, flush_ret, now, recorder_vars,
                   listener_vars, received, flush_mark, first_after_flush,
                   ext_vars>>

\* ---- record_speech ------------------------------------------------------
\* _rms_energy(chunk) > self.silence_threshold
Loud(energy) == energy > silence_threshold

\* The first statement of record_speech is self._flush_queue().
RecordSpeechEntryNoFlush == "rs_init"
RecordSpeechEntry == "flush_loop"

\* "if energy > threshold: silence_start = None
\*  else: if silence_start is None: silence_start = time.time()"
SilenceStartNoReset(energy, ss, t) == IF ss = NoTime THEN t ELSE ss
NextSilenceStart(energy, ss, t) ==
    IF Loud(energy) THEN NoTime
    ELSE IF ss = NoTime THEN t ELSE ss

\* "speech_elapsed >= self.min_recording_seconds
\*  and silence_duration >= self.silence_stop"
ShouldStopAtOnce(speech_elapsed, silence_duration) ==
    silence_duration >= 0
ShouldStop(speech_elapsed, silence_duration) ==
    /\ speech_elapsed >= min_recording_seconds
    /\ silence_duration >= silence_stop

\* speech_start_time is assigned under "if not speech_started" only: a
\* loud chunk after the start of speech leaves it alone.
RestartedSpeechStart(start_time, t) == t
KeptSpeechStart(start_time, t) == start_time

\* "if elapsed > self.max_recording_seconds: break" comes before
\* "all_chunks.append(chunk)": the chunk of that pass is not collected.
CeilingChunkAppended(chunks, collected) == collected
CeilingChunkDropped(chunks, collected) == chunks

\* One pass of the "while True" body for a chunk read at time t: the new
\* values of the locals and the way the pass ends.
RsIteration(chunk, t) ==
    LET elapsed == t - recording_start
        energy == chunk.energy
        collected == Append(all_chunks,
                            [id |-> chunk.id, energy |-> energy, t |-> t])
        ss == NextSilenceStart(energy, silence_start, t)
        same == [chunks |-> all_chunks, started |-> speech_started,
                 start_time |-> speech_start_time,
                 silence |-> silence_start, exit |-> "continue"]
    IN  IF elapsed > max_recording_seconds
        THEN [same EXCEPT !.chunks = CeilingChunkDropped(all_chunks, collected),
                          !.exit = "ceiling"]
        ELSE IF ~speech_started
        THEN IF Loud(energy)
             THEN [same EXCEPT !.chunks = collected, !.started = TRUE,
                               !.start_time = t]
             ELSE IF elapsed > no_speech_grace
             THEN [same EXCEPT !.chunks = collected, !.exit = "no_speech"]
             ELSE [same EXCEPT !.chunks = collected]
        ELSE IF Loud(energy)
        THEN [same EXCEPT !.chunks = collected, !.silence = ss,
                          !.start_time = KeptSpeechStart(speech_start_time, t)]
        ELSE IF ShouldStop(t - speech_start_time, t - ss)
        THEN [same EXCEPT !.chunks = collected, !.silence = ss,
                          !.exit = "silence"]
        ELSE [same EXCEPT !.chunks = collected, !.silence = ss]

\* What record_speech returns once the loop has ended with this exit.
RsReturn(exit, chunks) ==
    IF exit = "continue" THEN "running"
    ELSE IF exit = "no_speech" THEN "none"
    ELSE IF chunks = <<>> THEN "none"
    ELSE "utterance"

CallRecordSpeech ==
    /\ pc = "idle"
    /\ pc' = RecordSpeechEntry
    /\ flush_ret' = "rs_init"
    /\ flush_mark' = published
    /\ first_after_flush' = 0
    /\ rs_call_mark' = published
    /\ rs_call_time' = now
    /\ rs_result' = "running"
    /\ rs_stop' = "none"
    /\ all_chunks' = <<>>
    /\ speech_started' = FALSE
    /\ speech_start_time' = NoTime
    /\ silence_start' = NoTime
    /\ UNCHANGED <<audio_queue, published, cb_held, now, recording_start,
                   listener_vars, received,
                   ext_vars>>

\* "all_chunks = [] ... recording_start = time.time()"
RecordSpeechInit ==
    /\ pc = "rs_init"
    /\ pc' = "rs_loop"
    /\ all_chunks' = <<>>
    /\ speech_started' = FALSE
    /\ speech_start_time' = NoTime
    /\ silence_start' = NoTime
    /\ recording_start' = now
    /\ UNCHANGED <<audio_queue, published, cb_held, flush_ret, now, rs_result,
                   rs_stop, rs_call_mark, rs_call_time, listener_vars,
                   received, flush_mark, first_after_flush,
                   ext_vars>>

\* audio_queue.get(timeout=1.0) on an empty queue: queue.Empty after the
\* timeout, "continue".
RecordSpeechTimeout ==
    /\ pc = "rs_loop"
    /\ audio_queue = <<>>
    /\ now + get_timeout <= MaxTime
    /\ now' = now + get_timeout
    /\ UNCHANGED <<audio_queue, published, cb_held, pc, flush_ret,
                   recorder_vars, listener_vars, received, flush_mark,
                   first_after_flush,
                   ext_vars>>

\* audio_queue.get(timeout=1.0) returns a chunk, and the loop body runs.
RecordSpeechChunk ==
    /\ pc = "rs_loop"
    /\ audio_queue # <<>>
    /\ LET chunk == QueueGetValue(audio_queue)
           r == RsIteration(chunk, now)
       IN  /\ Obtain(chunk)
           /\ audio_queue' = QueueGetRest(audio_queue)
           /\ all_chunks' = r.chunks
           /\ speech_started' = r.started
           /\ speech_start_time' = r.start_time
           /\ silence_start' = r.silence
           /\ rs_stop' = IF r.exit = "continue" THEN rs_stop ELSE r.exit
           /\ rs_result' = RsReturn(r.exit, r.chunks)
           /\ pc' = IF r.exit = "continue" THEN "rs_loop" ELSE "idle"
    /\ UNCHANGED <<published, cb_held, flush_ret, now, recording_start,
                   rs_call_mark, rs_call_time, listener_vars, flush_mark,
                   ext_vars>>

\* ---- listen_and_detect --------------------------------------------------
RECURSIVE SeqSum(_)
SeqSum(s) == IF s = <<>> THEN 0 ELSE Head(s) + SeqSum(Tail(s))

RECURSIVE SeqMax(_)
SeqMax(s) == IF Len(s) = 1 THEN s[1]
             ELSE LET m == SeqMax(Tail(s)) IN IF Head(s) > m THEN Head(s) ELSE m

\* int(self.listen_duration / chunk_duration)
chunks_per_window == listen_duration_x2 \div chunk_duration_x2

\* "avg_rms < self.min_rms": sum / len < min_rms, without the division.
AvgBelow(energies) == SeqSum(energies) < min_rms * Len(energies)

\* "if avg_rms < self.min_rms: return False
\*  if max_rms < self.peak_rms: return False"
GateRejectsBothOnly(energies) ==
    AvgBelow(energies) /\ SeqMax(energies) < peak_rms
GateRejects(energies) ==
    AvgBelow(energies) \/ SeqMax(energies) < peak_rms

\* "for _ in range(self.chunks_per_window)": the loop ends with the window.
ListenWindowFullEarly(energies) == Len(energies) >= 1
ListenWindowFull(energies) == Len(energies) = chunks_per_window

CallListenAndDetect ==
    /\ pc = "idle"
    /\ pc' = "ld_collect"
    /\ chunk_energies' = <<>>
    /\ transcribe_calls' = 0
    /\ ld_result' = "running"
    /\ UNCHANGED <<audio_queue, published, cb_held, flush_ret, now,
                   recorder_vars, received, flush_mark, first_after_flush,
                   ext_vars>>

\* "chunk = self.audio.get_audio_chunk()", chunks_per_window times.
ListenGetChunk ==
    /\ pc = "ld_collect"
    /\ ~ListenWindowFull(chunk_energies)
    /\ audio_queue # <<>>
    /\ Obtain(QueueGetValue(audio_queue))
    /\ audio_queue' = QueueGetRest(audio_queue)
    /\ chunk_energies' = Append(chunk_energies, QueueGetValue(audio_queue).energy)
    /\ UNCHANGED <<published, cb_held, pc, flush_ret, now, recorder_vars,
                   transcribe_calls, ld_result, flush_mark,
                   ext_vars>>

\* The two energy gates on the complete window.
ListenGate ==
    /\ pc = "ld_collect"
    /\ ListenWindowFull(chunk_energies)
    /\ IF GateRejects(chunk_energies)
       THEN /\ pc' = "idle"
            /\ ld_result' = "false"
       ELSE /\ pc' = "ld_transcribe"
            /\ UNCHANGED ld_result
    /\ UNCHANGED <<audio_queue, published, cb_held, flush_ret, now,
                   recorder_vars, chunk_energies, transcribe_calls, received,
                   flush_mark, first_after_flush,
                   ext_vars>>

\* mlx_whisper.transcribe and the checks on its text: the call returns a
\* text that holds a trigger phrase, or one that is rejected, or it raises.
ListenTranscribe ==
    /\ pc = "ld_transcribe"
    /\ transcribe_calls' = transcribe_calls + 1
    /\ \E heard \in {"trigger", "no_match", "raise"} :
           ld_result' = IF heard = "trigger" THEN "true" ELSE "false"
    /\ pc' = "idle"
    /\ UNCHANGED <<audio_queue, published, cb_held, flush_ret, now,
                   recorder_vars, chunk_energies, received, flush_mark,
                   first_after_flush,
                   ext_vars>>

\* ---- listen_and_detect: the checks on the transcription -----------------
\* Texts are strings; SubSeq(s, i, i) is the character at i.
upper_letters == "ABCDEFGHIJKLMNOPQRSTUVWXYZ"
lower_letters == "abcdefghijklmnopqrstuvwxyz"

\* str.lower(), for one character and for a text.
LowerChar(c) ==
    IF \E i \in 1..Len(upper_letters) : SubSeq(upper_letters, i, i) = c
    THEN LET i == CHOOSE i \in 1..Len(upper_letters) :
                      SubSeq(upper_letters, i, i) = c
         IN  SubSeq(lower_letters, i, i)
    ELSE c

RECURSIVE Lower(_)
Lower(s) == IF s = "" THEN "" ELSE LowerChar(Head(s)) \o Lower(Tail(s))

\* str.strip()
RECURSIVE StripLeft(_)
StripLeft(s) == IF s # "" /\ Head(s) = " " THEN StripLeft(Tail(s)) ELSE s

RECURSIVE StripRight(_)
StripRight(s) ==
    IF s # "" /\ SubSeq(s, Len(s), Len(s)) = " "
    THEN StripRight(SubSeq(s, 1, Len(s) - 1))
    ELSE s

Strip(s) == StripRight(StripLeft(s))

\* "for char in ",.!?;:\"'": text = text.replace(char, "")"
punctuation == {",", ".", "!", "?", ";", ":", "\"", "'"}

RECURSIVE RemovePunctuation(_)
RemovePunctuation(s) ==
    IF s = "" THEN ""
    ELSE IF Head(s) \in punctuation THEN RemovePunctuation(Tail(s))
    ELSE Head(s) \o RemovePunctuation(Tail(s))

\* "text = result.get("text", "").strip().lower()", the punctuation loop
\* and the second strip().
CleanText(raw) == Strip(RemovePunctuation(Lower(Strip(raw))))

\* "kw in text"
Contains(text, kw) ==
    \E i \in 1..(Len(text) - Len(kw) + 1) :
        SubSeq(text, i, i + Len(kw) - 1) = kw

hallucinations ==
    {"thank you", "thanks for watching", "subscribe",
     "you", "bye", "the end", "music", "applause",
     "silence", "so", "okay", "oh", "hmm", "um",
     "thank you for watching", "please subscribe",
     "like and subscribe", "see you next time",
     "thanks", "the", "and", "i", "a", "it"}

trigger_phrases ==
    {"jarvis", "jalvis", "hey jarvis", "hey jalvis",
     "hi jarvis", "hi jalvis", "okay jarvis", "okay jalvis"}

\* "if phrase in text"
PhraseIsText(phrase, text) == phrase = text
PhraseIn(phrase, text) == Contains(text, phrase)

\* The checks on the cleaned text, in the order of the code.
WakeDecision(raw) ==
    LET text == CleanText(raw)
    IN  IF text \in hallucinations THEN FALSE
        ELSE IF Len(text) < 3 THEN FALSE
        ELSE IF text # "" /\ \E phrase \in trigger_phrases : PhraseIn(phrase, text)
        THEN TRUE
        ELSE FALSE

\* What mlx_whisper.transcribe can answer: it raises, or it returns a text.
WhisperTexts ==
    {"", " Hey, Jarvis!", "Thank you.", " Hi.", "hello there",
     "Okay Jalvis, open Safari", "JARVIS", " You", "it's jarring"}
WhisperResponses ==
    {[raised |-> TRUE, text |-> ""]} \cup
    {[raised |-> FALSE, text |-> t] : t \in WhisperTexts}

\* mlx_whisper.transcribe and the checks on its text, with the text.
ListenTranscribeText ==
    /\ pc = "ld_transcribe"
    /\ transcribe_calls' = transcribe_calls + 1
    /\ \E r \in WhisperResponses :
           /\ ld_heard' = r
           /\ ld_result' = IF ~r.raised /\ WakeDecision(r.text)
                           THEN "true" ELSE "false"
    /\ pc' = "idle"
    /\ UNCHANGED <<audio_queue, published, cb_held, flush_ret, now,
                   recorder_vars, chunk_energies, received, flush_mark,
                   first_after_flush, router_vars, main_vars, nlu_vars,
                   filter_vars, thread_vars>>

\* ---- tools/router.py: values ---------------------------------------------
\* Python values the router handles, each tagged with its type.  A dict is
\* a function from its keys; <<>> is the empty dict.
JStr(s) == [type |-> "str", str |-> s]
JInt(n) == [type |-> "int", int |-> n]
JNone == [type |-> "NoneType"]
JList(items) == [type |-> "list", list |-> items]
JDict(d) == [type |-> "dict", dict |-> d]

\* "d.get(key, default)"
DictGet(d, key, default) == IF key \in DOMAIN d THEN d[key] ELSE default

\* A classification as Stage 1 builds it:
\* {"tool": tool, "action": action, "params": params}
ClassificationWithoutParams(tool, action, params) ==
    [tool |-> JStr(tool), action |-> JStr(action)]
Classification(tool, action, params) ==
    [tool |-> JStr(tool), action |-> JStr(action), params |-> JDict(params)]

\* ---- tools/router.py: text operations ------------------------------------
\* "s.find(sub)", counted from 1; 0 when sub does not occur.
Find(s, sub) ==
    IF Contains(s, sub)
    THEN CHOOSE i \in 1..(Len(s) - Len(sub) + 1) :
             /\ SubSeq(s, i, i + Len(sub) - 1) = sub
             /\ \A j \in 1..(i - 1) : SubSeq(s, j, j + Len(sub) - 1) # sub
    ELSE 0

\* "s.split(sep, 1)[1]" for a sep that occurs in s
AfterFirst(s, sep) == SubSeq(s, Find(s, sep) + Len(sep), Len(s))

\* "s.split(sep)[0]"
BeforeFirst(s, sep) ==
    IF Contains(s, sep) THEN SubSeq(s, 1, Find(s, sep) - 1) ELSE s

\* "s.replace(old, "")"
RECURSIVE Remove(_, _)
Remove(s, old) ==
    IF Contains(s, old)
    THEN BeforeFirst(s, old) \o Remove(AfterFirst(s, old), old)
    ELSE s

\* "s.startswith(prefix)"
StartsWith(s, prefix) ==
    Len(s) >= Len(prefix) /\ SubSeq(s, 1, Len(prefix)) = prefix

\* "any(kw in text_lower for kw in [...])"
AnyIn(text, kws) == \E kw \in kws : Contains(text, kw)

IsLetter(c) ==
    \E i \in 1..Len(lower_letters) :
        SubSeq(lower_letters, i, i) = c \/ SubSeq(upper_letters, i, i) = c

UpperChar(c) ==
    IF \E i \in 1..Len(lower_letters) : SubSeq(lower_letters, i, i) = c
    THEN LET i == CHOOSE i \in 1..Len(lower_letters) :
                      SubSeq(lower_letters, i, i) = c
         IN  SubSeq(upper_letters, i, i)
    ELSE c

\* "s.title()": a letter after a letter is lowered, any other letter raised.
RECURSIVE TitleFrom(_, _)
TitleFrom(s, after_letter) ==
    IF s = "" THEN ""
    ELSE LET c == Head(s)
         IN  (IF after_letter THEN LowerChar(c) ELSE UpperChar(c))
                 \o TitleFrom(Tail(s), IsLetter(c))
Title(s) == TitleFrom(s, FALSE)

digits == "0123456789"
IsDigit(c) == \E i \in 1..Len(digits) : SubSeq(digits, i, i) = c
DigitValue(c) == (CHOOSE i \in 1..Len(digits) : SubSeq(digits, i, i) = c) - 1

\* "re.findall(r'\d+', text_lower)": whether it is non-empty, and
\* "int(numbers[0])".
HasNumber(s) == \E i \in 1..Len(s) : IsDigit(SubSeq(s, i, i))

RECURSIVE LeadingInt(_, _)
LeadingInt(s, acc) ==
    IF s # "" /\ IsDigit(Head(s))
    THEN LeadingInt(Tail(s), 10 * acc + DigitValue(Head(s)))
    ELSE acc

RECURSIVE FirstNumber(_)
FirstNumber(s) ==
    IF IsDigit(Head(s)) THEN LeadingInt(s, 0) ELSE FirstNumber(Tail(s))

\* "for prefix in [...]: if prefix in app:
\*      app = app.split(prefix, 1)[1].strip(); break"
RECURSIVE SplitAtFirstPrefix(_, _)
SplitAtFirstPrefix(app, prefixes) ==
    IF prefixes = <<>> THEN app
    ELSE IF Contains(app, Head(prefixes))
    THEN Strip(AfterFirst(app, Head(prefixes)))
    ELSE SplitAtFirstPrefix(app, Tail(prefixes))

\* "for suffix in [...]: app = app.replace(suffix, "").strip()"
RECURSIVE RemoveSuffixes(_, _)
RemoveSuffixes(app, suffixes) ==
    IF suffixes = <<>> THEN app
    ELSE RemoveSuffixes(Strip(Remove(app, Head(suffixes))), Tail(suffixes))

\* "re.sub(r'[?!.,]', '', app)"
RECURSIVE RemoveChars(_, _)
RemoveChars(s, chars) ==
    IF s = "" THEN ""
    ELSE IF Head(s) \in chars THEN RemoveChars(Tail(s), chars)
    ELSE Head(s) \o RemoveChars(Tail(s), chars)

\* ---- tools/router.py: Stage 1, the keyword pre-filter ---------------------
extract_app_name(text_lower) ==
    LET split == SplitAtFirstPrefix(text_lower,
                     <<"can you please open ", "can you open ",
                       "could you open ", "please open the ", "please open ",
                       "please launch ", "open the ", "open ", "launch the ",
                       "launch ", "start the ", "start ">>)
        trimmed == RemoveSuffixes(split,
                     <<" app", " application", " browser", " please",
                       " for me", " right now", " now">>)
        app == Strip(RemoveChars(trimmed, {"?", "!", ".", ","}))
    IN  IF app # "" THEN Title(app) ELSE ""

\* The app name of the "close app" branch.
CloseAppName(text_lower) ==
    Title(RemoveSuffixes(
              SplitAtFirstPrefix(text_lower,
                                 <<"close the ", "close ", "quit ", "exit ">>),
              <<" app", " application", " please", " for me">>))

Louder(text_lower) ==
    AnyIn(text_lower, {"up", "increase", "raise", "higher"})
Quieter(text_lower) ==
    AnyIn(text_lower, {"down", "decrease", "lower", "reduce"})
Maximal(text_lower) == AnyIn(text_lower, {"max", "full", "100"})

\* The volume branch.
VolumeRoute(text_lower) ==
    IF Contains(text_lower, "mute") /\ ~Contains(text_lower, "unmute")
    THEN Classification("mac_control", "volume_mute", <<>>)
    ELSE IF Contains(text_lower, "unmute")
    THEN Classification("mac_control", "volume_set", [level |-> JInt(50)])
    ELSE IF Maximal(text_lower)
    THEN Classification("mac_control", "volume_set", [level |-> JInt(100)])
    ELSE IF Louder(text_lower)
    THEN Classification("mac_control", "volume_up", <<>>)
    ELSE IF Quieter(text_lower)
    THEN Classification("mac_control", "volume_down", <<>>)
    ELSE IF HasNumber(text_lower)
    THEN LET n == FirstNumber(text_lower)
             level == IF n < 100 THEN n ELSE 100
         IN  Classification("mac_control", "volume_set",
                            [level |-> JInt(level)])
    ELSE Classification("mac_control", "volume_up", <<>>)

\* The brightness branch.
BrightnessRoute(text_lower) ==
    IF Maximal(text_lower)
    THEN Classification("mac_control", "brightness_up", <<>>)
    ELSE IF Louder(text_lower)
    THEN Classification("mac_control", "brightness_up", <<>>)
    ELSE IF Quieter(text_lower) \/ Contains(text_lower, "dim")
    THEN Classification("mac_control", "brightness_down", <<>>)
    ELSE IF Contains(text_lower, "min") \/ Contains(text_lower, "low")
    THEN Classification("mac_control", "brightness_down", <<>>)
    ELSE Classification("mac_control", "brightness_up", <<>>)

\* "for trigger in ["to ", "that ", "about "]: ...": the message of a
\* reminder, "" for None.
RECURSIVE ReminderMessage(_, _)
ReminderMessage(text_lower, triggers) ==
    IF triggers = <<>> THEN ""
    ELSE IF Contains(text_lower, Head(triggers))
    THEN LET candidate == Strip(AfterFirst(text_lower, Head(triggers)))
         IN  IF candidate # "" /\ ~IsDigit(Head(candidate))
             THEN candidate
             ELSE ReminderMessage(text_lower, Tail(triggers))
    ELSE ReminderMessage(text_lower, Tail(triggers))

\* The timer / reminder branch.
TimerRoute(text_lower) ==
    LET minutes == IF HasNumber(text_lower) THEN FirstNumber(text_lower) ELSE 5
        message == ReminderMessage(text_lower, <<"to ", "that ", "about ">>)
    IN  IF Contains(text_lower, "remind") /\ message # ""
        THEN Classification("reminder", "reminder",
                            [minutes |-> JInt(minutes),
                             message |-> JStr(message)])
        ELSE Classification("reminder", "timer", [minutes |-> JInt(minutes)])

\* The keyword tests of the messaging, app-launch, close-app, volume and
\* brightness categories.
MessagingPhrase(text_lower) ==
    AnyIn(text_lower, {"send a whatsapp", "whatsapp message", "message to",
                       "text to", "send message to", "send a message"})

AppLaunchKeywords(text_lower) ==
    /\ AnyIn(text_lower, {"open ", "launch ", "start "})
    /\ ~AnyIn(text_lower, {"whatsapp message", "send a", "message to"})

CloseKeywords(text_lower) == AnyIn(text_lower, {"close ", "quit ", "exit "})

VolumeKeywords(text_lower) == AnyIn(text_lower, {"volume", "mute", "unmute"})

BrightnessKeywords(text_lower) == Contains(text_lower, "brightness")

\* The branches after the app-launch branch, which falls through when no
\* app name is left.
KeywordRouteBrightnessFirst(text_lower) ==
    IF BrightnessKeywords(text_lower)
    THEN BrightnessRoute(text_lower)
    ELSE IF VolumeKeywords(text_lower)
    THEN VolumeRoute(text_lower)
    ELSE IF Contains(text_lower, "screenshot")
            \/ Contains(text_lower, "screen shot")
    THEN Classification("mac_control", "screenshot", <<>>)
    ELSE IF AnyIn(text_lower, {"lock screen", "lock the screen", "lock my mac"})
    THEN Classification("mac_control", "lock", <<>>)
    ELSE IF AnyIn(text_lower, {"set a timer", "set timer", "remind me",
                               "set a reminder", "countdown", "alarm",
                               "timer for"})
    THEN TimerRoute(text_lower)
    ELSE JNone

KeywordRouteAfterClose(text_lower) ==
    IF VolumeKeywords(text_lower)
    THEN VolumeRoute(text_lower)
    ELSE IF BrightnessKeywords(text_lower)
    THEN BrightnessRoute(text_lower)
    ELSE IF Contains(text_lower, "screenshot")
            \/ Contains(text_lower, "screen shot")
    THEN Classification("mac_control", "screenshot", <<>>)
    ELSE IF AnyIn(text_lower, {"lock screen", "lock the screen", "lock my mac"})
    THEN Classification("mac_control", "lock", <<>>)
    ELSE IF AnyIn(text_lower, {"set a timer", "set timer", "remind me",
                               "set a reminder", "countdown", "alarm",
                               "timer for"})
    THEN TimerRoute(text_lower)
    ELSE JNone

KeywordRouteAfterOpen(text_lower) ==
    IF CloseKeywords(text_lower) /\ CloseAppName(text_lower) # ""
    THEN Classification("mac_control", "close_app",
                        [app |-> JStr(CloseAppName(text_lower))])
    ELSE KeywordRouteAfterClose(text_lower)

\* The app-launch branch and what follows it.
KeywordRouteAfterMessaging(text_lower) ==
    IF AppLaunchKeywords(text_lower) /\ extract_app_name(text_lower) # ""
    THEN Classification("mac_control", "open_app",
                        [app |-> JStr(extract_app_name(text_lower))])
    ELSE KeywordRouteAfterOpen(text_lower)

\* The messaging branch: "return None", Stage 2 extracts contact and message.
MessagingRouteFallsThrough(text_lower) == KeywordRouteAfterMessaging(text_lower)
MessagingRoute(text_lower) == JNone

\* _keyword_route: the first branch whose keywords occur decides.
keyword_route(utterance) ==
    LET text_lower == Lower(utterance)
    IN  IF AnyIn(text_lower, {"what time", "current time", "tell me the time",
                              "what's the time", "what is the time",
                              "time right now", "time please"})
        THEN Classification("system_info", "time", <<>>)
        ELSE IF AnyIn(text_lower, {"what date", "current date", "what day",
                                   "today's date", "what is today",
                                   "which day", "date today"})
        THEN Classification("system_info", "date", <<>>)
        ELSE IF AnyIn(text_lower, {"battery", "charge level", "power left",
                                   "how much charge", "battery percentage",
                                   "battery life"})
        THEN Classification("system_info", "battery", <<>>)
        ELSE IF AnyIn(text_lower, {"read my screen", "read the screen",
                                   "read the text", "what text",
                                   "text on screen", "ocr", "extract text",
                                   "what does my screen say"})
        THEN Classification("vision", "ocr", [question |-> JStr(utterance)])
        ELSE IF AnyIn(text_lower, {"what's on my screen", "whats on my screen",
                                   "describe my screen", "look at my screen",
                                   "what do you see on my screen",
                                   "what app is open", "what am i looking at",
                                   "what am i working on", "describe screen"})
        THEN Classification("vision", "describe_screen",
                            [question |-> JStr(utterance)])
        ELSE IF AnyIn(text_lower, {"what do you see", "can you see me",
                                   "look at me", "webcam", "camera",
                                   "what am i wearing", "how do i look",
                                   "who do you see", "describe me"})
        THEN Classification("vision", "describe_webcam",
                            [question |-> JStr(utterance)])
        ELSE IF AnyIn(text_lower, {"write a script", "write a program",
                                   "write code", "run a script",
                                   "execute code", "python script",
                                   "write python", "code that",
                                   "make a script", "create a script",
                                   "run python", "write a python",
                                   "write me a", "automate", "sort my",
                                   "fetch api", "system check", "disk usage",
                                   "list files"})
        THEN Classification("code_executor", "run",
                            [request |-> JStr(utterance)])
        ELSE IF AnyIn(text_lower, {"weather", "temperature", "how hot",
                                   "how cold", "forecast", "rain today",
                                   "humidity", "sunny", "cloudy",
                                   "wind speed"})
        THEN Classification("web_search", "search",
                            [query |-> JStr(utterance)])
        ELSE IF AnyIn(text_lower, {"price of", "stock price", "bitcoin",
                                   "crypto", "score", "who won",
                                   "match result", "latest news",
                                   "current news", "headlines", "trending",
                                   "election", "ipl"})
        THEN Classification("web_search", "search",
                            [query |-> JStr(utterance)])
        ELSE IF AnyIn(text_lower, {"search for", "look up", "google",
                                   "find out", "search about",
                                   "tell me about the latest",
                                   "what is happening"})
        THEN Classification("web_search", "search",
                            [query |-> JStr(utterance)])
        ELSE IF MessagingPhrase(text_lower)
        THEN MessagingRoute(text_lower)
        ELSE KeywordRouteAfterMessaging(text_lower)

\* ---- tools/router.py: Stage 2, classify ----------------------------------
\* {"tool": "none"}
NoneTool == [tool |-> JStr("none")]

\* json.loads on the texts classify hands it: the JSON objects below parse
\* to their values, every other text raises json.JSONDecodeError.
JsonObjects ==
    {[text |-> "{\"tool\":\"none\"}",
      value |-> [tool |-> JStr("none")]],
     [text |-> "{}",
      value |-> <<>>],
     [text |-> "{\"action\":\"time\"}",
      value |-> [action |-> JStr("time")]],
     [text |-> "{\"tool\":\"mac_control\",\"action\":\"open_app\",\"params\":{\"app\":\"Safari\"}}",
      value |-> Classification("mac_control", "open_app",
                               [app |-> JStr("Safari")])],
     [text |-> "{\"tool\":\"whatsapp\",\"action\":\"send\",\"params\":{\"contact\":\"Mom\",\"message\":\"hi\"}}",
      value |-> Classification("whatsapp", "send",
                               [contact |-> JStr("Mom"),
                                message |-> JStr("hi")])],
     [text |-> "{\"tool\":\"web_search\",\"action\":\"search\",\"params\":{\"query\":\"what does } mean\"}}",
      value |-> Classification("web_search", "search",
                               [query |-> JStr("what does } mean")])],
     [text |-> "{\"tool\":\"web_search\",\"action\":\"search\",\"params\":{\"query\":\"set {1, 2}\"}}",
      value |-> Classification("web_search", "search",
                               [query |-> JStr("set {1, 2}")])],
     [text |-> "{\"tool\":\"spotify\",\"action\":\"play\",\"params\":{}}",
      value |-> Classification("spotify", "play", <<>>)],
     [text |-> "{\"tool\":\"mac_control\",\"action\":7,\"params\":\"Safari\"}",
      value |-> [tool |-> JStr("mac_control"), action |-> JInt(7),
                 params |-> JStr("Safari")]],
     [text |-> "{\"tool\":[\"mac_control\"]}",
      value |-> [tool |-> JList(<<JStr("mac_control")>>)]],
     [text |-> "{\"tool\":{\"name\":\"mac_control\"}}",
      value |-> [tool |-> JDict([name |-> JStr("mac_control")])]],
     [text |-> "{\"tool\":null}",
      value |-> [tool |-> JNone]],
     [text |-> "{\"tool\":5}",
      value |-> [tool |-> JInt(5)]]}

json_loads(s) ==
    IF \E o \in JsonObjects : o.text = s
    THEN [exc |-> "", value |-> (CHOOSE o \in JsonObjects : o.text = s).value]
    ELSE [exc |-> "JSONDecodeError", value |-> <<>>]

\* The markdown code fence: three backticks, each written ~ here.
fence == "~~~"

\* "if FENCE in raw: raw = raw.split(FENCE)[1]
\*      if raw.startswith("json"): raw = raw[4:]
\*      raw = raw.strip()", FENCE being the code fence
StripFences(raw) ==
    IF Contains(raw, fence)
    THEN LET inner == BeforeFirst(AfterFirst(raw, fence), fence)
         IN  Strip(IF StartsWith(inner, "json")
                   THEN SubSeq(inner, 5, Len(inner))
                   ELSE inner)
    ELSE raw

\* "for i, char in enumerate(json_str)": depth after the character at i is
\* the number of "{" minus the number of "}" up to i.
DepthAfter(json_str, i) ==
    Cardinality({j \in 1..i : SubSeq(json_str, j, j) = "{"})
        - Cardinality({j \in 1..i : SubSeq(json_str, j, j) = "}"})

\* The positions at which the loop hands json_str[:i + 1] to json.loads.
ClosingPositions(json_str) ==
    {i \in 1..Len(json_str) :
        SubSeq(json_str, i, i) = "}" /\ DepthAfter(json_str, i) = 0}

\* The loop: the value at the first position where json.loads succeeds
\* ("break"), past those where it raises ("continue"); "none" for a
\* result that stays None.
ScanBraces(json_str) ==
    LET parsed == {i \in ClosingPositions(json_str) :
                      json_loads(SubSeq(json_str, 1, i)).exc = ""}
    IN  IF parsed = {} THEN [exc |-> "none", value |-> <<>>]
        ELSE LET first == CHOOSE i \in parsed : \A j \in parsed : i <= j
             IN  json_loads(SubSeq(json_str, 1, first))

\* classify from the text of the generation on: what it returns.
ClassifyParse(response_text) ==
    LET raw == StripFences(Strip(response_text))
        start == Find(raw, "{")
    IN  IF start = 0 THEN NoneTool
        ELSE LET result == ScanBraces(SubSeq(raw, start, Len(raw)))
             IN  IF result.exc = "none" THEN NoneTool ELSE result.value

\* What the collaborator does with the request.
LlmFailures ==
    {"connection_error",     \* requests.post raises
     "http_error",           \* response.raise_for_status() raises
     "body_not_json",        \* response.json() raises
     "body_not_dict",        \* response.json() is a list: no .get
     "response_not_str"}     \* its "response" is not a string: no .strip

\* The exception the try body of classify ends with, "" when it returns;
\* raw_bound tells whether "raw" was assigned before.  A body that is not
\* JSON raises json.JSONDecodeError from response.json(), or, with the
\* simplejson package present under an older requests, a ValueError that
\* is not one.
ClassifyTryBody(r, decode_error) ==
    IF r.kind = "connection_error"
    THEN [exc |-> "ConnectionError", raw_bound |-> FALSE, value |-> <<>>]
    ELSE IF r.kind = "http_error"
    THEN [exc |-> "HTTPError", raw_bound |-> FALSE, value |-> <<>>]
    ELSE IF r.kind = "body_not_json"
    THEN [exc |-> decode_error, raw_bound |-> FALSE, value |-> <<>>]
    ELSE IF r.kind \in {"body_not_dict", "response_not_str"}
    THEN [exc |-> "AttributeError", raw_bound |-> FALSE, value |-> <<>>]
    ELSE [exc |-> "", raw_bound |-> TRUE, value |-> ClassifyParse(r.text)]

\* classify: the try body and its two except clauses.  The first clause
\* formats raw[:100]; with raw unassigned that raises UnboundLocalError,
\* which leaves classify.
classify(r, decode_error) ==
    LET body == ClassifyTryBody(r, decode_error)
    IN  IF body.exc = "" THEN [exc |-> "", value |-> body.value]
        ELSE IF body.exc = "JSONDecodeError"
        THEN IF body.raw_bound
             THEN [exc |-> "", value |-> NoneTool]
             ELSE [exc |-> "UnboundLocalError", value |-> <<>>]
        ELSE [exc |-> "", value |-> NoneTool]

\* ---- tools/router.py: execute and route ----------------------------------
\* The names main() registers.
tools ==
    {"system_info", "mac_control", "reminder", "web_search", "whatsapp",
     "vision", "code_executor"}

\* Whether a value can be looked up in a dict.
Hashable(v) == v.type \in {"str", "int", "NoneType"}

\* "tool_name not in self.tools", negated, for a hashable tool_name
RegisteredAlways(tool_name) == TRUE
Registered(tool_name) == tool_name.type = "str" /\ tool_name.str \in tools

\* f"{tool_name}" for a hashable tool_name
RECURSIVE IntToStr(_)
IntToStr(n) ==
    IF n < 10 THEN SubSeq(digits, n + 1, n + 1)
    ELSE IntToStr(n \div 10) \o SubSeq(digits, (n % 10) + 1, (n % 10) + 1)

Format(v) ==
    IF v.type = "str" THEN v.str
    ELSE IF v.type = "NoneType" THEN "None"
    ELSE IntToStr(v.int)

not_available_prefix == "I don't have the "
NotAvailable(tool_name) ==
    JStr(not_available_prefix \o Format(tool_name) \o " tool available yet.")

SomethingWentWrong ==
    JStr("Sorry, something went wrong while running that command.")

\* What a handler's execute(action, params) does: it returns its result or
\* it raises an Exception.
HandlerOutcomes == {"returns", "raises"}
HandlerResult(tool_name) == JStr("result of " \o tool_name)

\* Utterances handed to route().
UserTexts ==
    {"what time is it", "What's the time please?", "tell me a joke",
     "open Safari", "can you open brave browser?", "close the music app",
     "set volume to 30", "Turn the brightness up", "mute",
     "send a whatsapp message to Mom saying hi",
     "remind me in 10 minutes to call mom", "set a timer for 3 minutes",
     "what's the weather today", "take a screenshot", "how are you", "",
     "turn the volume and brightness down", "Mute, don't open ...",
     "close the brightness app", "volume up and close ",
     "text to mom and open safari", "send a message to dad, volume up",
     "message to sam: brightness down and set a timer for 5"}

\* Texts the collaborator can generate after a JSON object.
TrailingTexts ==
    {"", " Hope this helps!", "}",
     " Run " \o fence \o "open -a Safari" \o fence \o " for that."}

\* Generations from which no JSON object can be taken: truncated,
\* unbalanced, garbage, no opening brace.
MalformedTexts ==
    {"", "I think the user wants to chat.",
     "{\"tool\":\"mac_control\",\"action\":\"open_app\"",
     "{\"tool\":\"mac_control\",\"params\":{\"app\":\"Safari\"}",
     "{{\"tool\":\"none\"}",
     "}}{",
     "{tool: none} is my answer",
     fence \o "json {\"tool\": " \o fence \o " sorry"}

\* Generations inside a markdown code block, or after some prose.
WrappedTexts ==
    {fence \o "json {\"tool\":\"none\"} " \o fence,
     fence \o "{\"tool\":\"spotify\",\"action\":\"play\",\"params\":{}}"
         \o fence \o " done",
     "Sure: {\"tool\":\"none\"}"}

LlmTexts ==
    {o.text \o t : o \in JsonObjects, t \in TrailingTexts}
        \cup MalformedTexts \cup WrappedTexts

LlmResponses ==
    {[kind |-> k, text |-> ""] : k \in LlmFailures}
        \cup {[kind |-> "text", text |-> t] : t \in LlmTexts}

\* "self._keyword_route(user_text)" and "self.classify(user_text)" for the
\* utterances and the collaborator answers above.
KeywordRoutes == [text \in UserTexts |-> keyword_route(text)]
Classifications ==
    [r \in LlmResponses, decode_error \in {"JSONDecodeError", "ValueError"} |->
        classify(r, decode_error)]

\* "if keyword_match is not None"
KeywordNeverMatched(match) == FALSE
KeywordMatched(match) == match # JNone

\* "self.last_route = keyword_match", "self.last_route = classification"
KeepLastRoute(old, classification) == old
SetLastRoute(old, classification) == classification

\* "if tool_result:" of the main loop.
Truthy(v) == v # JNone /\ v # JStr("")

\* The classification route() hands to execute().
Dispatched ==
    IF KeywordMatched(keyword_match) THEN keyword_match ELSE cl_result.value

\* route() up to the end of Stage 1.
RouteStage1 ==
    /\ rt_pc = "idle"
    /\ rt_entry_route' = last_route
    /\ \E text \in UserTexts :
           LET match == KeywordRoutes[text]
           IN  /\ user_text' = text
               /\ keyword_match' = match
               /\ IF KeywordMatched(match)
                  THEN /\ last_route' = SetLastRoute(last_route, match)
                       /\ rt_pc' = "execute"
                  ELSE /\ UNCHANGED last_route
                       /\ rt_pc' = "classify"
    /\ llm_calls' = 0
    /\ llm_response' = [kind |-> "none", text |-> ""]
    /\ cl_result' = [exc |-> "", value |-> <<>>]
    /\ handler_calls' = <<>>
    /\ rt_status' = "running"
    /\ rt_result' = JNone
    /\ UNCHANGED thread_vars
    /\ UNCHANGED <<audio_vars, ld_heard, main_vars, nlu_vars, filter_vars>>

\* Stage 2: the request to the collaborator and classify's handling of the
\* answer; an exception that leaves classify leaves route.
RouteClassify ==
    /\ rt_pc = "classify"
    /\ llm_calls' = llm_calls + 1
    /\ \E r \in LlmResponses, decode_error \in {"JSONDecodeError", "ValueError"} :
           LET classification == Classifications[r, decode_error]
           IN  /\ llm_response' = r
               /\ cl_result' = classification
               /\ IF classification.exc = ""
                  THEN /\ last_route' = SetLastRoute(last_route,
                                                    classification.value)
                       /\ rt_pc' = "execute"
                       /\ UNCHANGED rt_status
                  ELSE /\ rt_pc' = "idle"
                       /\ rt_status' = classification.exc
                       /\ UNCHANGED last_route
    /\ UNCHANGED <<user_text, rt_entry_route, keyword_match, handler_calls, rt_result>>
    /\ UNCHANGED thread_vars
    /\ UNCHANGED <<audio_vars, ld_heard, main_vars, nlu_vars, filter_vars>>

\* execute(classification) up to the handler call.
RouteExecute ==
    /\ rt_pc = "execute"
    /\ LET tool_name == DictGet(Dispatched, "tool", JStr("none"))
       IN  IF tool_name = JStr("none")
           THEN /\ rt_result' = JNone
                /\ rt_status' = "returned"
                /\ rt_pc' = "idle"
           ELSE IF ~Hashable(tool_name)
           THEN /\ rt_status' = "TypeError"
                /\ rt_pc' = "idle"
                /\ UNCHANGED rt_result
           ELSE IF ~Registered(tool_name)
           THEN /\ rt_result' = NotAvailable(tool_name)
                /\ rt_status' = "returned"
                /\ rt_pc' = "idle"
           ELSE /\ rt_pc' = "handler"
                /\ UNCHANGED <<rt_result, rt_status>>
    /\ UNCHANGED <<user_text, rt_entry_route, keyword_match, llm_calls, llm_response,
                   cl_result, last_route, handler_calls>>
    /\ UNCHANGED thread_vars
    /\ UNCHANGED <<audio_vars, ld_heard, main_vars, nlu_vars, filter_vars>>

\* "handler = self.tools[tool_name]; result = handler.execute(action, params)"
\* inside execute's try.
RouteHandler ==
    /\ rt_pc = "handler"
    /\ \E outcome \in HandlerOutcomes :
           /\ handler_calls' =
                  Append(handler_calls,
                         [tool |-> DictGet(Dispatched, "tool", JStr("none")),
                          action |-> DictGet(Dispatched, "action",
                                             JStr("unknown")),
                          params |-> DictGet(Dispatched, "params",
                                             JDict(<<>>)),
                          outcome |-> outcome])
           /\ rt_result' =
                  IF outcome = "returns"
                  THEN HandlerResult(Format(DictGet(Dispatched, "tool",
                                                    JStr("none"))))
                  ELSE SomethingWentWrong
    /\ rt_status' = "returned"
    /\ rt_pc' = "idle"
    /\ UNCHANGED <<user_text, rt_entry_route, keyword_match, llm_calls, llm_response,
                   cl_result, last_route>>
    /\ UNCHANGED thread_vars
    /\ UNCHANGED <<audio_vars, ld_heard, main_vars, nlu_vars, filter_vars>>

\* ---- main.py: startup, the main loop, recovery and shutdown --------------
\* The main thread's calls into the other subsystems are steps here; what
\* they do inside is modelled above.  A stream is "active" after start(),
\* "inactive" when PortAudio has stopped it (the device went away) and
\* "closed" after close().

\* "if self.stream.active: self.stream.stop(); self.stream.close()"
Close(stream) == IF stream = "active" THEN "closed" ELSE stream

\* audio_capture.close() on the stream of the current AudioCapture.
CloseCurrent(ss) == [ss EXCEPT ![Len(ss)] = Close(ss[Len(ss)])]

OpenStreams(ss) == {i \in 1..Len(ss) : ss[i] # "closed"}

\* Faults a call of a main-loop cycle can end with.
Faults == {"OSError", "Exception"}

\* The except clauses of the main loop, in their order: OSError, Exception.
ExceptClauseOSErrorOnly(fault) ==
    IF fault = "OSError" THEN "except_oserror" ELSE "uncaught"
ExceptClause(fault) ==
    IF fault = "OSError" THEN "except_oserror"
    ELSE IF fault = "Exception" THEN "except_exception"
    ELSE "uncaught"

\* The steps of a cycle after record_speech returned the utterance:
\* transcription, routing with the tool handlers, the reply.
AfterRecording == {"transcribe", "route", "respond"}

\* A fault raised inside the try of the main loop: the rest of the cycle
\* is skipped.
Raise(fault) ==
    /\ m_fault' = fault
    /\ m_fault_site' = m_pc
    /\ abandoned' = (abandoned \/ (wake_pending /\ m_pc \in AfterRecording))
    /\ in_flight' = 0
    /\ wake_pending' = FALSE
    /\ IF ExceptClause(fault) = "uncaught"
       THEN /\ m_pc' = "exited"
            /\ exit_cause' = "uncaught_fault"
       ELSE /\ m_pc' = ExceptClause(fault)
            /\ UNCHANGED exit_cause

\* Where the main thread goes after a speak: every tts.speak(...) is
\* followed by audio_capture.flush_queue().
AfterFlushRecordsAgain(site) ==
    IF site \in {"yes", "not_understood"} THEN "record"
    ELSE IF site = "response" THEN "save"
    ELSE "listen"
AfterFlush(site) ==
    IF site = "yes" THEN "record"
    ELSE IF site = "response" THEN "save"
    ELSE "listen"
AfterSpeakNoFlush(site) == AfterFlush(site)
AfterSpeak(site) == "flush"

\* "audio_capture = AudioCapture()" at startup; a failure is sys.exit(1).
StartAudioCapture ==
    /\ m_pc = "start"
    /\ \E opened \in BOOLEAN :
           IF opened
           THEN /\ streams' = <<"active">>
                /\ m_pc' = "init_subsystems"
                /\ UNCHANGED exit_cause
           ELSE /\ m_pc' = "exited"
                /\ exit_cause' = "device_open_failure"
                /\ UNCHANGED streams
    /\ UNCHANGED <<m_site, say_running, unflushed, read_unflushed, read_after, m_fault>>
    /\ UNCHANGED thread_vars
    /\ UNCHANGED <<audio_vars, ld_heard, router_vars, flight_vars,
                   cycle_vars, nlu_vars, filter_vars>>

\* WakeWordDetector, SpeechToText, NLUEngine, TextToSpeech, ToolRouter and
\* the tools are constructed outside any try: a fault ends the process.
\* The memory system and the dashboard are inside one.
StartSubsystems ==
    /\ m_pc = "init_subsystems"
    /\ \E ok \in BOOLEAN :
           IF ok
           THEN /\ m_pc' = "speak"
                /\ m_site' = "online"
                /\ UNCHANGED exit_cause
           ELSE /\ m_pc' = "exited"
                /\ exit_cause' = "startup_failure"
                /\ UNCHANGED m_site
    /\ UNCHANGED <<streams, say_running, unflushed, read_unflushed, read_after, m_fault>>
    /\ UNCHANGED thread_vars
    /\ UNCHANGED <<audio_vars, ld_heard, router_vars, flight_vars,
                   cycle_vars, nlu_vars, filter_vars>>

\* tts.speak: subprocess.run starts "say" ...
SpeakBegin ==
    /\ m_pc = "speak"
    /\ ~say_running
    /\ say_running' = TRUE
    /\ unflushed' = TRUE
    /\ UNCHANGED <<m_pc, m_site, streams, exit_cause, read_unflushed, read_after, m_fault>>
    /\ UNCHANGED thread_vars
    /\ UNCHANGED <<audio_vars, ld_heard, router_vars, flight_vars,
                   cycle_vars, nlu_vars, filter_vars>>

\* ... and returns when it has ended, failed, or was killed at the timeout.
SpeakEnd ==
    /\ m_pc = "speak"
    /\ say_running
    /\ say_running' = FALSE
    /\ m_pc' = AfterSpeak(m_site)
    /\ UNCHANGED <<m_site, streams, exit_cause, unflushed, read_unflushed,
                   read_after, m_fault>>
    /\ UNCHANGED thread_vars
    /\ UNCHANGED <<audio_vars, ld_heard, router_vars, flight_vars,
                   cycle_vars, nlu_vars, filter_vars>>

\* audio_capture.flush_queue() after a speak.
MainFlush ==
    /\ m_pc = "flush"
    /\ unflushed' = FALSE
    /\ abandoned' = FALSE
    /\ m_pc' = AfterFlush(m_site)
    /\ IF AfterFlush(m_site) = "listen"
       THEN /\ in_flight' = 0
            /\ wake_pending' = FALSE
       ELSE UNCHANGED flight_vars
    /\ UNCHANGED <<m_site, streams, exit_cause, say_running, read_unflushed,
                   read_after, m_fault, read_abandoned, m_fault_site>>
    /\ UNCHANGED thread_vars
    /\ UNCHANGED <<audio_vars, ld_heard, router_vars, nlu_vars, filter_vars>>

\* wake_word.listen_and_detect(): it reads a window of chunks, which the
\* callback delivers while the stream is active.
MainListen ==
    /\ m_pc = "listen"
    /\ streams[Len(streams)] = "active"
    /\ read_unflushed' = (read_unflushed \/ unflushed)
    /\ read_abandoned' = (read_abandoned \/ abandoned)
    /\ \E outcome \in {"false", "true"} \cup Faults :
           IF outcome = "false"
           THEN UNCHANGED <<m_pc, m_site, exit_cause, m_fault, flight_vars,
                            abandoned, m_fault_site>>
           ELSE IF outcome = "true"
           THEN /\ m_pc' = "speak"
                /\ m_site' = "yes"
                /\ wake_pending' = TRUE
                /\ UNCHANGED <<exit_cause, m_fault, in_flight, abandoned,
                               m_fault_site>>
           ELSE /\ Raise(outcome)
                /\ UNCHANGED m_site
    /\ read_after' = m_site
    /\ UNCHANGED <<streams, say_running, unflushed>>
    /\ UNCHANGED thread_vars
    /\ UNCHANGED <<audio_vars, ld_heard, router_vars, nlu_vars, filter_vars>>

\* audio_capture.record_speech(): it flushes, then reads chunks until it
\* returns an utterance or None.
MainRecord ==
    /\ m_pc = "record"
    /\ streams[Len(streams)] = "active"
    /\ unflushed' = FALSE
    /\ \E outcome \in {"utterance", "None"} \cup Faults :
           IF outcome = "utterance"
           THEN /\ m_pc' = "transcribe"
                /\ in_flight' = in_flight + 1
                /\ abandoned' = FALSE
                /\ UNCHANGED <<m_site, exit_cause, m_fault, wake_pending,
                               m_fault_site>>
           ELSE IF outcome = "None"
           THEN /\ m_pc' = "speak"
                /\ m_site' = "no_speech"
                /\ abandoned' = FALSE
                /\ UNCHANGED <<exit_cause, m_fault, flight_vars, m_fault_site>>
           ELSE /\ Raise(outcome)
                /\ UNCHANGED m_site
    /\ read_after' = m_site
    /\ UNCHANGED <<streams, say_running, read_unflushed, read_abandoned>>
    /\ UNCHANGED thread_vars
    /\ UNCHANGED <<audio_vars, ld_heard, router_vars, nlu_vars, filter_vars>>

\* stt.transcribe(speech_audio): a text, or "" (it catches its faults).
MainTranscribe ==
    /\ m_pc = "transcribe"
    /\ \E understood \in BOOLEAN :
           IF understood
           THEN /\ m_pc' = "route"
                /\ UNCHANGED m_site
           ELSE /\ m_pc' = "speak"
                /\ m_site' = "not_understood"
    /\ UNCHANGED <<streams, exit_cause, say_running, unflushed,
                   read_unflushed, read_after, m_fault>>
    /\ UNCHANGED thread_vars
    /\ UNCHANGED <<audio_vars, ld_heard, router_vars, flight_vars,
                   cycle_vars, nlu_vars, filter_vars>>

\* tool_router.route(user_text): a result, None, or an exception that
\* leaves route (TypeError, UnboundLocalError).
MainRoute ==
    /\ m_pc = "route"
    /\ \E outcome \in {"returns", "Exception"} :
           IF outcome = "returns"
           THEN /\ m_pc' = "respond"
                /\ UNCHANGED <<exit_cause, m_fault, flight_vars, abandoned,
                               m_fault_site>>
           ELSE Raise(outcome)
    /\ UNCHANGED <<m_site, streams, say_running, unflushed, read_unflushed,
                   read_after, read_abandoned>>
    /\ UNCHANGED thread_vars
    /\ UNCHANGED <<audio_vars, ld_heard, router_vars, nlu_vars, filter_vars>>

\* The response: the tool result, the code or vision branch, or nlu.think.
\* A request that times out raises requests' ReadTimeout, an OSError.
MainRespond ==
    /\ m_pc = "respond"
    /\ \E outcome \in {"response"} \cup Faults :
           IF outcome = "response"
           THEN /\ m_pc' = "speak"
                /\ m_site' = "response"
                /\ UNCHANGED <<exit_cause, m_fault, flight_vars, abandoned,
                               m_fault_site>>
           ELSE /\ Raise(outcome)
                /\ UNCHANGED m_site
    /\ UNCHANGED <<streams, say_running, unflushed, read_unflushed,
                   read_after, read_abandoned>>
    /\ UNCHANGED thread_vars
    /\ UNCHANGED <<audio_vars, ld_heard, router_vars, nlu_vars, filter_vars>>

\* memory.after_exchange inside its own try, gc, wake_word.reset().
MainCycleComplete ==
    /\ m_pc = "save"
    /\ m_pc' = "listen"
    /\ in_flight' = 0
    /\ wake_pending' = FALSE
    /\ UNCHANGED <<m_site, streams, exit_cause, say_running, unflushed,
                   read_unflushed, read_after, m_fault, cycle_vars>>
    /\ UNCHANGED thread_vars
    /\ UNCHANGED <<audio_vars, ld_heard, router_vars, nlu_vars, filter_vars>>

\* "except OSError": close the capture, open a new one, whose queue is
\* empty, and a new wake listener; a fault in any of these is sys.exit(1).
HandleOSError ==
    /\ m_pc = "except_oserror"
    /\ Len(streams) < MaxStreams
    /\ \E outcome \in {"recovered", "open_fails", "wake_word_fails"} :
           IF outcome = "recovered"
           THEN /\ streams' = Append(CloseCurrent(streams), "active")
                /\ m_pc' = "listen"
                /\ abandoned' = FALSE
                /\ UNCHANGED exit_cause
           ELSE /\ streams' = IF outcome = "open_fails"
                              THEN CloseCurrent(streams)
                              ELSE Append(CloseCurrent(streams), "active")
                /\ m_pc' = "exited"
                /\ exit_cause' = "recovery_failure"
                /\ UNCHANGED abandoned
    /\ UNCHANGED <<m_site, say_running, unflushed, read_unflushed, read_after, m_fault>>
    /\ UNCHANGED <<read_abandoned, m_fault_site>>
    /\ UNCHANGED thread_vars
    /\ UNCHANGED <<audio_vars, ld_heard, router_vars, flight_vars,
                   nlu_vars, filter_vars>>

\* "except Exception": log, sleep, next iteration.
HandleException ==
    /\ m_pc = "except_exception"
    /\ m_pc' = "listen"
    /\ UNCHANGED <<m_site, streams, exit_cause, say_running, unflushed,
                   read_unflushed, read_after, m_fault>>
    /\ UNCHANGED thread_vars
    /\ UNCHANGED <<audio_vars, ld_heard, router_vars, flight_vars,
                   cycle_vars, nlu_vars, filter_vars>>

\* SIGINT: graceful_shutdown closes the capture, if there is one, and
\* exits; a running "say" dies with the process.
GracefulShutdown ==
    /\ m_pc # "exited"
    /\ streams' = IF streams # <<>> THEN CloseCurrent(streams) ELSE streams
    /\ say_running' = FALSE
    /\ m_pc' = "exited"
    /\ exit_cause' = "signal"
    /\ UNCHANGED <<m_site, unflushed, read_unflushed, read_after, m_fault>>
    /\ UNCHANGED thread_vars
    /\ UNCHANGED <<audio_vars, ld_heard, router_vars, flight_vars,
                   cycle_vars, nlu_vars, filter_vars>>

\* The input device goes away: PortAudio stops the stream.
DeviceStops ==
    /\ m_pc # "exited"
    /\ streams # <<>>
    /\ streams[Len(streams)] = "active"
    /\ streams' = [streams EXCEPT ![Len(streams)] = "inactive"]
    /\ UNCHANGED <<m_pc, m_site, exit_cause, say_running, unflushed,
                   read_unflushed, read_after, m_fault>>
    /\ UNCHANGED thread_vars
    /\ UNCHANGED <<audio_vars, ld_heard, router_vars, flight_vars,
                   cycle_vars, nlu_vars, filter_vars>>

\* ---- core/nlu.py: think ---------------------------------------------------
IDENTITY_POISON_PHRASES ==
    {"as an engineer myself", "as an aspiring engineer",
     "as an aspiring ai engineer", "my aspirations", "my passion for ai",
     "as a student myself", "my engineering", "i am an aspiring",
     "quest for knowledge", "professional growth",
     "within brainware", "brainware university", "concierge to",
     "guidance within", "resources on ai",
     "not directed at myself", "query is not directed",
     "acknowledges that he", "delve into your identity",
     "uncover your identity", "explore your identity", "bit of a mystery",
     "in my capacity", "my role as", "my function as", "vibe coding",
     "100 days of", "cursor ide", "claude code", "rtx 3050",
     "macbook air m1"}

IDENTITY_RESPONSES ==
    [who_are_you |->
         "I'm Jarvis, your personal AI assistant running locally on your Mac. "
         \o "How can I help you, Sonu?",
     who_am_i |->
         "You're Swapnil Hazra, nickname Sonu. "
         \o "An aspiring AI engineer and student at Brainware University. "
         \o "Currently doing a 100 Days of Vibe Coding challenge. "
         \o "What can I do for you?"]

\* The messages think returns without an answer of the collaborator.
didnt_catch == "I didn't catch that. Could you repeat?"
cant_reach ==
    "I can't reach my brain right now. "
    \o "Please make sure Ollama is running."
trouble_thinking == "I'm having trouble thinking right now. Please try again."

who_are_you_questions ==
    {"who are you", "what are you", "tell me about yourself",
     "introduce yourself", "what is your name", "what's your name",
     "are you jarvis", "are you an ai", "are you a robot",
     "what can you do", "what do you do"}

who_am_i_questions ==
    {"who am i", "what is my name", "what's my name",
     "do you know me", "do you know who i am",
     "tell me about me", "what do you know about me",
     "where do i study", "where do i work",
     "what is my goal", "what are my interests",
     "what do i do", "what am i doing",
     "what is my university", "what college",
     "my name", "about me"}

\* _check_identity_shortcut: a hardcoded response, or None.
check_identity_shortcut(user_input) ==
    LET text_lower == Strip(Lower(user_input))
    IN  IF AnyIn(text_lower, who_are_you_questions)
        THEN JStr(IDENTITY_RESPONSES.who_are_you)
        ELSE IF AnyIn(text_lower, who_am_i_questions)
        THEN JStr(IDENTITY_RESPONSES.who_am_i)
        ELSE JNone

\* "s.endswith(suffix)"
EndsWith(s, suffix) ==
    Len(s) >= Len(suffix)
    /\ SubSeq(s, Len(s) - Len(suffix) + 1, Len(s)) = suffix

\* "for poison in [...]: if poison in raw_response:
\*      raw_response = raw_response[:raw_response.index(poison)].strip()"
poisons ==
    <<"---", "###", "REFERENCE:", "Instruction:", fence,
      "Note:", "Disclaimer:", "As an AI language">>

RECURSIVE CutAtPoisons(_, _)
CutAtPoisons(raw_response, i) ==
    IF i > Len(poisons) THEN raw_response
    ELSE CutAtPoisons(IF Contains(raw_response, poisons[i])
                      THEN Strip(BeforeFirst(raw_response, poisons[i]))
                      ELSE raw_response,
                      i + 1)

\* "if raw_response.startswith(q) and raw_response.endswith(q):
\*      raw_response = raw_response[1:-1]"
RemoveWrapping(raw_response, q) ==
    IF StartsWith(raw_response, q) /\ EndsWith(raw_response, q)
    THEN SubSeq(raw_response, 2, Len(raw_response) - 1)
    ELSE raw_response

filler_prefixes ==
    <<"As Jarvis, ", "As your assistant, ", "Well, as Jarvis, ",
      "As your AI assistant, ", "As an AI, ", "Certainly! ",
      "Certainly, ", "Of course! ">>

\* "raw_response = raw_response[len(prefix):]" and the capital letter.
RemovePrefix(raw_response, prefix) ==
    LET rest == SubSeq(raw_response, Len(prefix) + 1, Len(raw_response))
    IN  IF rest # "" THEN UpperChar(Head(rest)) \o Tail(rest) ELSE rest

RECURSIVE RemoveFillers(_, _)
RemoveFillers(raw_response, i) ==
    IF i > Len(filler_prefixes) THEN raw_response
    ELSE RemoveFillers(IF StartsWith(raw_response, filler_prefixes[i])
                       THEN RemovePrefix(raw_response, filler_prefixes[i])
                       ELSE raw_response,
                       i + 1)

\* _clean_response
clean_response(raw_response) ==
    IF raw_response = "" THEN ""
    ELSE LET cut == CutAtPoisons(raw_response, 1)
         IN  IF AnyIn(Lower(cut), IDENTITY_POISON_PHRASES)
             THEN IDENTITY_RESPONSES.who_am_i
             ELSE Strip(RemoveFillers(
                      RemoveWrapping(RemoveWrapping(cut, "\""), "'"), 1))

\* What requests.get(".../api/tags", timeout=3) ends with: a status, or an
\* exception of requests.  ConnectTimeout is a ConnectionError and a
\* Timeout; ReadTimeout is a Timeout only.
ReachabilityOutcomes ==
    {"status_200", "status_500", "ConnectionError", "ConnectTimeout",
     "ReadTimeout"}

\* "except requests.ConnectionError"
CatchesConnectionError(outcome) ==
    outcome \in {"ConnectionError", "ConnectTimeout"}

\* _check_ollama_running: what it returns, or the exception it lets out.
check_ollama_running(outcome) ==
    IF outcome = "status_200" THEN [exc |-> "", value |-> TRUE]
    ELSE IF outcome = "status_500" THEN [exc |-> "", value |-> FALSE]
    ELSE IF CatchesConnectionError(outcome) THEN [exc |-> "", value |-> FALSE]
    ELSE [exc |-> outcome, value |-> FALSE]

\* Ways one requests.post of _call_ollama, or the reading of its answer,
\* raises inside the try of the loop.
GenerateFailures ==
    {"ConnectionError", "ReadTimeout", "HTTPError", "body_not_json",
     "body_not_dict", "response_not_str"}

\* data.get("response", "") of an answer that is read without a fault.
GenerateTexts ==
    {"", "   ", "Paris is the capital of France.",
     "  Certainly! it is four.  ", "Certainly, Of course! yes.",
     "--- Instruction: say hi", "It is late. Note: I am a model",
     "As an aspiring engineer, I agree.", "\"Good evening, sir.\"",
     "'", "Of course! ", fence \o "python x = 1 " \o fence,
     "My Role As your guide ### done"}

GenerateReplies ==
    {[kind |-> f, text |-> ""] : f \in GenerateFailures} \cup
    {[kind |-> "ok", text |-> t] : t \in GenerateTexts}

\* The user_input arguments of think.
ThinkInputs ==
    {"", "Who are you?", "  What's my name", "Tell me a joke",
     "What is the capital of France?",
     "Write a script: \"what can you do\""}

IdentityShortcuts == [t \in ThinkInputs |-> check_identity_shortcut(t)]
CleanResponses == [t \in GenerateTexts |-> clean_response(Strip(t))]

\* "for attempt in range(2)": the second attempt is the last one.
NeverLastAttempt(attempt) == FALSE
LastAttempt(attempt) == attempt = 1

\* think returns text.
ThinkReturn(text) ==
    /\ th_result' = text
    /\ th_status' = "returned"
    /\ th_pc' = "idle"

\* think(user_input, memory_context, raw) up to the reachability check.
ThinkCall ==
    /\ th_pc = "idle"
    /\ \E user_input \in ThinkInputs, raw_mode \in BOOLEAN :
           /\ th_user_input' = user_input
           /\ th_raw' = raw_mode
           /\ IF user_input = ""
              THEN ThinkReturn(didnt_catch)
              ELSE IF ~raw_mode /\ IdentityShortcuts[user_input] # JNone
              THEN ThinkReturn(IdentityShortcuts[user_input].str)
              ELSE /\ th_pc' = "check"
                   /\ th_status' = "running"
                   /\ th_result' = ""
    /\ th_attempt' = 0
    /\ generate_calls' = 0
    /\ th_reply' = [kind |-> "none", text |-> ""]
    /\ UNCHANGED thread_vars
    /\ UNCHANGED <<audio_vars, ld_heard, router_vars, main_vars, filter_vars>>

\* "if not self._check_ollama_running(): return ..."; the call is outside
\* the try of think.
ThinkCheckOllama ==
    /\ th_pc = "check"
    /\ \E outcome \in ReachabilityOutcomes :
           LET r == check_ollama_running(outcome)
           IN  IF r.exc # ""
               THEN /\ th_status' = r.exc
                    /\ th_pc' = "idle"
                    /\ UNCHANGED th_result
               ELSE IF ~r.value
               THEN ThinkReturn(cant_reach)
               ELSE /\ th_pc' = "generate"
                    /\ UNCHANGED <<th_result, th_status>>
    /\ UNCHANGED <<th_user_input, th_raw, th_attempt, generate_calls, th_reply>>
    /\ UNCHANGED thread_vars
    /\ UNCHANGED <<audio_vars, ld_heard, router_vars, main_vars, filter_vars>>

\* One pass of the loop of _call_ollama, and what think does with what
\* _call_ollama returns or raises.
ThinkGenerate ==
    /\ th_pc = "generate"
    /\ generate_calls' = generate_calls + 1
    /\ \E reply \in GenerateReplies :
           /\ th_reply' = reply
           /\ IF reply.kind # "ok"
              THEN IF LastAttempt(th_attempt)
                   THEN /\ ThinkReturn(trouble_thinking)
                        /\ UNCHANGED th_attempt
                   ELSE /\ th_attempt' = th_attempt + 1
                        /\ UNCHANGED <<th_pc, th_result, th_status>>
              ELSE LET response == Strip(reply.text)
                       cleaned == IF response = "" THEN ""
                                  ELSE IF ~th_raw
                                  THEN CleanResponses[reply.text]
                                  ELSE response
                   IN  /\ ThinkReturn(IF cleaned # "" THEN cleaned
                                      ELSE trouble_thinking)
                       /\ UNCHANGED th_attempt
    /\ UNCHANGED <<th_user_input, th_raw>>
    /\ UNCHANGED thread_vars
    /\ UNCHANGED <<audio_vars, ld_heard, router_vars, main_vars, filter_vars>>

\* ---- main.py: the reply step with think() inside ---------------------------
\* The exceptions of requests derive from RequestException, an IOError,
\* which is OSError: "except OSError" of the main loop takes them.
RequestsExceptions ==
    {"ConnectionError", "ConnectTimeout", "ReadTimeout", "HTTPError"}
ExceptionBase(exc) ==
    IF exc \in RequestsExceptions THEN "OSError" ELSE "Exception"

\* "response = tool_result", or "response = nlu.think(user_text,
\* memory_context)" once think has returned or let an exception out; the
\* state of the call ends with it.
MainRespondThink ==
    /\ m_pc = "respond"
    /\ th_pc = "idle"
    /\ th_status # "running"
    /\ IF th_status \in {"not_called", "returned"}
       THEN /\ m_pc' = "speak"
            /\ m_site' = "response"
            /\ UNCHANGED <<exit_cause, m_fault, flight_vars, abandoned,
                           m_fault_site>>
       ELSE /\ Raise(ExceptionBase(th_status))
            /\ UNCHANGED m_site
    /\ th_status' = "not_called"
    /\ th_user_input' = ""
    /\ th_raw' = FALSE
    /\ th_attempt' = 0
    /\ generate_calls' = 0
    /\ th_reply' = [kind |-> "none", text |-> ""]
    /\ th_result' = ""
    /\ UNCHANGED <<streams, say_running, unflushed, read_unflushed,
                   read_after, read_abandoned>>
    /\ UNCHANGED th_pc
    /\ UNCHANGED thread_vars
    /\ UNCHANGED <<audio_vars, ld_heard, router_vars, filter_vars>>

\* ---- core/audio.py: the high-pass filter ----------------------------------
\* Samples are int16.  The float64 values of the filter are kept as whole
\* multiples of 1/Scale, rounded toward zero.
Scale == 16
int16_min == -32768
int16_max == 32767

\* hp_alpha = rc / (rc + dt) with rc = 1 / (2 pi 85) and dt = 1 / 16000:
\* 0.9677, which is 30/31 to four places.
alpha_num == 30
alpha_den == 31

\* Samples per block: 1280 in the configuration, two here.
chunk_samples == 2

\* What the microphone delivers.
Samples == {int16_min, 0, int16_max}
RawChunks == [1..chunk_samples -> Samples]

TruncDiv(a, b) == IF a >= 0 THEN a \div b ELSE -((-a) \div b)

\* "self._hp_prev_raw = 0.0; self._hp_prev_filt = 0.0"
InitialFilterStateCharged == [prev_raw |-> 0, prev_filt |-> 100 * Scale]
InitialFilterState == [prev_raw |-> 0, prev_filt |-> 0]

\* "prev_filt = alpha * (prev_filt + raw[i] - prev_raw)"
FilterStep(prev_filt, prev_raw, x) ==
    TruncDiv(alpha_num * (prev_filt + Scale * (x - prev_raw)), alpha_den)

\* "np.clip(filtered, -32768, 32767)"
ClipNothing(v) == v
Clip(v) ==
    IF v < int16_min * Scale THEN int16_min * Scale
    ELSE IF v > int16_max * Scale THEN int16_max * Scale
    ELSE v

\* ".astype(np.int16)" of a value in the int16 range: the fraction is cut.
AsInt16(v) == TruncDiv(v, Scale)

\* The loop "for i in range(len(raw))" from sample i on: the filtered
\* values so far and the state after the last sample.
RECURSIVE FilterLoop(_, _, _, _, _)
FilterLoop(raw_chunk, i, filtered, prev_raw, prev_filt) ==
    IF i > Len(raw_chunk)
    THEN [filtered |-> filtered, prev_raw |-> prev_raw,
          prev_filt |-> prev_filt]
    ELSE LET y == FilterStep(prev_filt, prev_raw, raw_chunk[i])
         IN  FilterLoop(raw_chunk, i + 1, Append(filtered, y),
                        raw_chunk[i], y)

\* _highpass_filter on a chunk with the state of self: the int16 chunk it
\* returns and the state it saves.
highpass_filter_stateless(chunk_int16, prev_raw, prev_filt) ==
    LET r == FilterLoop(chunk_int16, 1, <<>>, InitialFilterState.prev_raw,
                        InitialFilterState.prev_filt)
    IN  [out |-> [i \in 1..Len(chunk_int16) |-> AsInt16(Clip(r.filtered[i]))],
         prev_raw |-> r.prev_raw, prev_filt |-> r.prev_filt]
highpass_filter(chunk_int16, prev_raw, prev_filt) ==
    LET r == FilterLoop(chunk_int16, 1, <<>>, prev_raw, prev_filt)
    IN  [out |-> [i \in 1..Len(chunk_int16) |-> AsInt16(Clip(r.filtered[i]))],
         prev_raw |-> r.prev_raw, prev_filt |-> r.prev_filt]

\* _audio_callback with the samples: "chunk = indata.copy().flatten();
\* filtered = self._highpass_filter(chunk); self.audio_queue.put(filtered)".
AudioCallbackFilter ==
    /\ Len(raw_in) < MaxChunks * chunk_samples
    /\ \E chunk \in RawChunks :
           LET r == highpass_filter(chunk, hp_prev_raw, hp_prev_filt)
           IN  /\ hp_prev_raw' = r.prev_raw
               /\ hp_prev_filt' = r.prev_filt
               /\ raw_in' = raw_in \o chunk
               /\ filtered_chunks' = Append(filtered_chunks, r.out)
    /\ UNCHANGED seen_chunks
    /\ UNCHANGED thread_vars
    /\ UNCHANGED <<audio_vars, ld_heard, router_vars, main_vars, nlu_vars>>

\* get_audio_chunk, with the samples: the consumer obtains the oldest chunk
\* of the queue.
GetFilteredChunk ==
    /\ filtered_chunks # <<>>
    /\ seen_chunks' = Append(seen_chunks, QueueGetValue(filtered_chunks))
    /\ filtered_chunks' = QueueGetRest(filtered_chunks)
    /\ UNCHANGED <<hp_prev_raw, hp_prev_filt, raw_in>>
    /\ UNCHANGED thread_vars
    /\ UNCHANGED <<audio_vars, ld_heard, router_vars, main_vars, nlu_vars>>

\* ---- dashboard/events.py: the event queue ---------------------------------
\* The threads that call emit: the main loop and the telemetry thread.
Emitters == {"main", "telemetry"}

\* What the emitters emit: the main loop the events the cumulative state
\* counts and others, the telemetry thread telemetry events.
EventTypes ==
    [main |-> {"wake_detected", "routing", "response", "status"},
     telemetry |-> {"telemetry"}]

\* "_event_queue.full()" as put_nowait tests it.
EventQueueFull(q) == Len(q) >= EventQueueSize

\* "Track cumulative state"
TrackState(state, type) ==
    [wake_count |-> state.wake_count
                        + (IF type = "wake_detected" THEN 1 ELSE 0),
     tool_count |-> state.tool_count + (IF type = "routing" THEN 1 ELSE 0),
     exchange_count |-> state.exchange_count
                            + (IF type = "response" THEN 1 ELSE 0)]

\* emit returns (status "returned") or an exception leaves it.
EmitEnds(e, status) ==
    /\ em_status' = [em_status EXCEPT ![e] = status]
    /\ em_pc' = [em_pc EXCEPT ![e] = "idle"]

\* emit(event) up to the first put_nowait: the time stamp and the counters.
EmitCall(e) ==
    /\ em_pc[e] = "idle"
    /\ emitted < MaxEvents
    /\ \E type \in EventTypes[e] :
           /\ em_event' = [em_event EXCEPT
                               ![e] = [id |-> emitted + 1, type |-> type]]
           /\ dash_state' = TrackState(dash_state, type)
    /\ emitted' = emitted + 1
    /\ em_pc' = [em_pc EXCEPT ![e] = "put_nowait"]
    /\ em_status' = [em_status EXCEPT ![e] = "running"]
    /\ em_enqueued' = [em_enqueued EXCEPT ![e] = FALSE]
    /\ UNCHANGED <<event_queue, dropped_events, delivered, ge_result>>
    /\ UNCHANGED timer_vars
    /\ UNCHANGED <<audio_vars, ld_heard, router_vars, main_vars, nlu_vars,
                   filter_vars>>

\* "try: _event_queue.put_nowait(event)  except queue.Full:"
EmitPutNowait(e) ==
    /\ em_pc[e] = "put_nowait"
    /\ IF ~EventQueueFull(event_queue)
       THEN /\ event_queue' = Append(event_queue, em_event[e])
            /\ em_enqueued' = [em_enqueued EXCEPT ![e] = TRUE]
            /\ EmitEnds(e, "returned")
       ELSE /\ em_pc' = [em_pc EXCEPT ![e] = "get_nowait"]
            /\ UNCHANGED <<event_queue, em_enqueued, em_status>>
    /\ UNCHANGED <<em_event, emitted, dash_state, dropped_events, delivered,
                   ge_result>>
    /\ UNCHANGED timer_vars
    /\ UNCHANGED <<audio_vars, ld_heard, router_vars, main_vars, nlu_vars,
                   filter_vars>>

\* "try: _event_queue.get_nowait()": the oldest event is dropped, or the
\* queue was emptied meanwhile and "except queue.Empty: pass" ends emit.
EmitGetNowait(e) ==
    /\ em_pc[e] = "get_nowait"
    /\ IF event_queue # <<>>
       THEN /\ event_queue' = Tail(event_queue)
            /\ dropped_events' = Append(dropped_events, Head(event_queue).id)
            /\ em_pc' = [em_pc EXCEPT ![e] = "put_again"]
            /\ UNCHANGED em_status
       ELSE /\ EmitEnds(e, "returned")
            /\ UNCHANGED <<event_queue, dropped_events>>
    /\ UNCHANGED <<em_event, em_enqueued, emitted, dash_state, delivered,
                   ge_result>>
    /\ UNCHANGED timer_vars
    /\ UNCHANGED <<audio_vars, ld_heard, router_vars, main_vars, nlu_vars,
                   filter_vars>>

\* "_event_queue.put_nowait(event)" inside "except queue.Full:", in a try
\* that has "except queue.Empty" only: a queue.Full raised here leaves emit.
EmitPutAgain(e) ==
    /\ em_pc[e] = "put_again"
    /\ IF ~EventQueueFull(event_queue)
       THEN /\ event_queue' = Append(event_queue, em_event[e])
            /\ em_enqueued' = [em_enqueued EXCEPT ![e] = TRUE]
            /\ EmitEnds(e, "returned")
       ELSE /\ EmitEnds(e, "queue.Full")
            /\ UNCHANGED <<event_queue, em_enqueued>>
    /\ UNCHANGED <<em_event, emitted, dash_state, dropped_events, delivered,
                   ge_result>>
    /\ UNCHANGED timer_vars
    /\ UNCHANGED <<audio_vars, ld_heard, router_vars, main_vars, nlu_vars,
                   filter_vars>>

\* get_event(timeout): the oldest event, or None when the timeout passes
\* with the queue empty.
GetEvent ==
    /\ IF event_queue # <<>>
       THEN /\ ge_result' = Head(event_queue).id
            /\ delivered' = Append(delivered, Head(event_queue).id)
            /\ event_queue' = Tail(event_queue)
       ELSE /\ ge_result' = NoEvent
            /\ UNCHANGED <<delivered, event_queue>>
    /\ UNCHANGED <<em_pc, em_event, em_status, em_enqueued, emitted,
                   dash_state, dropped_events>>
    /\ UNCHANGED timer_vars
    /\ UNCHANGED <<audio_vars, ld_heard, router_vars, main_vars, nlu_vars,
                   filter_vars>>

\* ---- tools/reminder.py: timers and reminders ------------------------------
\* Time is counted in seconds.  A timer's id is the value of timer_counter
\* that named it; its thread is "unstarted" until thread.start().
TimerIds == 1..MaxTimers

\* The durations _extract_duration yields for the params of the set calls.
Durations == {0, 1, 2, 7201}

max_timer_seconds == 7200

\* "if total_seconds <= 0: return ...   if total_seconds > 7200: return ..."
Accepted(total_seconds) ==
    total_seconds > 0 /\ total_seconds <= max_timer_seconds

\* _cleanup_finished: the entries whose end_time has come are popped.
cleanup_finished(timers, time_now) ==
    [tid \in {t \in DOMAIN timers : ~(timers[t].end_time <= time_now)} |->
        timers[tid]]

\* "self.active_timers.pop(timer_id, None)"
Pop(timers, timer_id) ==
    [tid \in DOMAIN timers \ {timer_id} |-> timers[tid]]

\* The timers whose thread runs and has not begun its announcement.
Pending ==
    {t \in TimerIds : timer_threads[t].pc \in
                          {"sleep", "check_in", "check_flag", "announce"}}

\* The thread of timer_id ends.
ThreadEnds(timer_id) ==
    timer_threads' = [timer_threads EXCEPT ![timer_id].pc = "done"]

\* _set_timer and _set_reminder up to thread.start(): the checks of the
\* duration, the new id and the start of the thread, which begins with
\* time.sleep(1).
SetTimerStart ==
    /\ tool_pc = "idle"
    /\ timer_counter < MaxTimers
    /\ \E total_seconds \in Durations :
           IF ~Accepted(total_seconds)
           THEN /\ tool_result' = [call |-> "set", value |-> "rejected"]
                /\ UNCHANGED <<timer_counter, timer_threads, tool_pc,
                               tool_timer>>
           ELSE /\ timer_counter' = timer_counter + 1
                /\ tool_timer' = [id |-> timer_counter + 1,
                                  seconds |-> total_seconds]
                /\ timer_threads' =
                       [timer_threads EXCEPT
                            ![timer_counter + 1] =
                                [pc |-> "sleep", elapsed |-> 0,
                                 seconds |-> total_seconds,
                                 wake_at |-> clock + 1]]
                /\ tool_pc' = "register"
                /\ UNCHANGED tool_result
    /\ UNCHANGED <<active_timers, announced, clock, before_cancel,
                   pending_at_cancel, late_announced>>
    /\ UNCHANGED dash_vars
    /\ UNCHANGED <<audio_vars, ld_heard, router_vars, main_vars, nlu_vars,
                   filter_vars>>

\* "self.active_timers[timer_id] = {..., "end_time": datetime.now() +
\* timedelta(seconds=total_seconds), ...}" and the return.
SetTimerRegister ==
    /\ tool_pc = "register"
    /\ active_timers' =
           [tid \in DOMAIN active_timers \cup {tool_timer.id} |->
               IF tid = tool_timer.id
               THEN [end_time |-> clock + tool_timer.seconds]
               ELSE active_timers[tid]]
    /\ tool_result' = [call |-> "set", value |-> "set"]
    /\ tool_pc' = "idle"
    /\ UNCHANGED <<timer_counter, timer_threads, tool_timer, announced, clock,
                   before_cancel, pending_at_cancel, late_announced>>
    /\ UNCHANGED dash_vars
    /\ UNCHANGED <<audio_vars, ld_heard, router_vars, main_vars, nlu_vars,
                   filter_vars>>

\* _list_timers: the clean-up, then the timers with time left are listed.
ListTimers ==
    /\ tool_pc = "idle"
    /\ timer_counter > 0
    /\ active_timers' = cleanup_finished(active_timers, clock)
    /\ tool_result' = [call |-> "list",
                       value |-> Cardinality(DOMAIN active_timers')]
    /\ UNCHANGED <<timer_counter, timer_threads, tool_pc, tool_timer,
                   announced, clock, before_cancel, pending_at_cancel,
                   late_announced>>
    /\ UNCHANGED dash_vars
    /\ UNCHANGED <<audio_vars, ld_heard, router_vars, main_vars, nlu_vars,
                   filter_vars>>

\* _cancel_all up to the end of its clean-up.
CancelAllCleanup ==
    /\ tool_pc = "idle"
    /\ timer_counter > 0
    /\ active_timers' = cleanup_finished(active_timers, clock)
    /\ tool_pc' = "cancel"
    /\ before_cancel' = 1..timer_counter
    /\ pending_at_cancel' = Pending
    /\ UNCHANGED <<timer_counter, timer_threads, tool_timer, tool_result,
                   announced, clock, late_announced>>
    /\ UNCHANGED dash_vars
    /\ UNCHANGED <<audio_vars, ld_heard, router_vars, main_vars, nlu_vars,
                   filter_vars>>

\* The rest of _cancel_all: the count, the marks, clear() and the return.
CancelAllClear ==
    /\ tool_pc = "cancel"
    /\ tool_result' = [call |-> "cancel",
                      value |-> Cardinality(DOMAIN active_timers)]
    /\ active_timers' = <<>>
    /\ tool_pc' = "idle"
    /\ UNCHANGED <<timer_counter, timer_threads, tool_timer, announced, clock,
                   before_cancel, pending_at_cancel, late_announced>>
    /\ UNCHANGED dash_vars
    /\ UNCHANGED <<audio_vars, ld_heard, router_vars, main_vars, nlu_vars,
                   filter_vars>>

\* "time_module.sleep(1); elapsed += 1": the sleep ends one second after
\* it began, or later.
TimerThreadSleep(timer_id) ==
    /\ timer_threads[timer_id].pc = "sleep"
    /\ clock >= timer_threads[timer_id].wake_at
    /\ timer_threads' =
           [timer_threads EXCEPT
                ![timer_id].pc = "check_in",
                ![timer_id].elapsed = @ + 1]
    /\ UNCHANGED <<active_timers, timer_counter, tool_pc, tool_timer,
                   tool_result, announced, clock, before_cancel,
                   pending_at_cancel, late_announced>>
    /\ UNCHANGED dash_vars
    /\ UNCHANGED <<audio_vars, ld_heard, router_vars, main_vars, nlu_vars,
                   filter_vars>>

\* "if timer_id not in self.active_timers: return"
TimerThreadCheckIn(timer_id) ==
    /\ timer_threads[timer_id].pc = "check_in"
    /\ IF timer_id \notin DOMAIN active_timers
       THEN ThreadEnds(timer_id)
       ELSE timer_threads' =
                [timer_threads EXCEPT ![timer_id].pc = "check_flag"]
    /\ UNCHANGED <<active_timers, timer_counter, tool_pc, tool_timer,
                   tool_result, announced, clock, before_cancel,
                   pending_at_cancel, late_announced>>
    /\ UNCHANGED dash_vars
    /\ UNCHANGED <<audio_vars, ld_heard, router_vars, main_vars, nlu_vars,
                   filter_vars>>

\* "if self.active_timers.get(timer_id, {}).get("cancelled", False): return"
\* and the test of the loop.  _cancel_all clears the dict in the step that
\* sets the marks, so no entry read here has one.
TimerThreadCheckFlag(timer_id) ==
    /\ timer_threads[timer_id].pc = "check_flag"
    /\ timer_threads' =
           [timer_threads EXCEPT
                ![timer_id].pc =
                    IF timer_threads[timer_id].elapsed
                           < timer_threads[timer_id].seconds
                    THEN "sleep" ELSE "announce",
                ![timer_id].wake_at = clock + 1]
    /\ UNCHANGED <<active_timers, timer_counter, tool_pc, tool_timer,
                   tool_result, announced, clock, before_cancel,
                   pending_at_cancel, late_announced>>
    /\ UNCHANGED dash_vars
    /\ UNCHANGED <<audio_vars, ld_heard, router_vars, main_vars, nlu_vars,
                   filter_vars>>

\* The announcement: afplay, then say, inside a try.
TimerThreadAnnounce(timer_id) ==
    /\ timer_threads[timer_id].pc = "announce"
    /\ announced' = [announced EXCEPT ![timer_id] = @ + 1]
    /\ late_announced' =
           IF timer_id \in before_cancel /\ tool_pc # "cancel"
           THEN late_announced \cup {timer_id}
           ELSE late_announced
    /\ timer_threads' = [timer_threads EXCEPT ![timer_id].pc = "pop"]
    /\ UNCHANGED <<active_timers, timer_counter, tool_pc, tool_timer,
                   tool_result, clock, before_cancel, pending_at_cancel>>
    /\ UNCHANGED dash_vars
    /\ UNCHANGED <<audio_vars, ld_heard, router_vars, main_vars, nlu_vars,
                   filter_vars>>

\* "self.active_timers.pop(timer_id, None)" and the end of the thread.
TimerThreadPop(timer_id) ==
    /\ timer_threads[timer_id].pc = "pop"
    /\ active_timers' = Pop(active_timers, timer_id)
    /\ ThreadEnds(timer_id)
    /\ UNCHANGED <<timer_counter, tool_pc, tool_timer, tool_result, announced,
                   clock, before_cancel, pending_at_cancel, late_announced>>
    /\ UNCHANGED dash_vars
    /\ UNCHANGED <<audio_vars, ld_heard, router_vars, main_vars, nlu_vars,
                   filter_vars>>

\* A second passes.
ClockTick ==
    /\ clock < MaxClock
    /\ clock' = clock + 1
    /\ UNCHANGED <<active_timers, timer_counter, timer_threads, tool_pc,
                   tool_timer, tool_result, announced, before_cancel,
                   pending_at_cancel, late_announced>>
    /\ UNCHANGED dash_vars
    /\ UNCHANGED <<audio_vars, ld_heard, router_vars, main_vars, nlu_vars,
                   filter_vars>>

Init ==
    /\ audio_queue = <<>>
    /\ published = 0
    /\ cb_held = NoChunk
    /\ pc = "idle"
    /\ flush_ret = "idle"
    /\ now = 0
    /\ all_chunks = <<>>
    /\ speech_started = FALSE
    /\ speech_start_time = NoTime
    /\ silence_start = NoTime
    /\ recording_start = 0
    /\ rs_result = "not_called"
    /\ rs_stop = "none"
    /\ chunk_energies = <<>>
    /\ transcribe_calls = 0
    /\ ld_result = "not_called"
    /\ received = <<>>
    /\ flush_mark = 0
    /\ first_after_flush = 0
    /\ rs_call_mark = 0
    /\ rs_call_time = 0
    /\ ld_heard = [raised |-> FALSE, text |-> ""]
    /\ rt_pc = "idle"
    /\ user_text = ""
    /\ keyword_match = JNone
    /\ llm_calls = 0
    /\ llm_response = [kind |-> "none", text |-> ""]
    /\ cl_result = [exc |-> "", value |-> <<>>]
    /\ last_route = <<>>
    /\ rt_entry_route = <<>>
    /\ handler_calls = <<>>
    /\ rt_result = JNone
    /\ rt_status = "not_called"
    /\ m_pc = "start"
    /\ m_site = "online"
    /\ streams = <<>>
    /\ exit_cause = ""
    /\ say_running = FALSE
    /\ unflushed = FALSE
    /\ read_unflushed = FALSE
    /\ read_after = "none"
    /\ m_fault = ""
    /\ in_flight = 0
    /\ wake_pending = FALSE
    /\ abandoned = FALSE
    /\ read_abandoned = FALSE
    /\ m_fault_site = ""
    /\ th_pc = "idle"
    /\ th_user_input = ""
    /\ th_raw = FALSE
    /\ th_attempt = 0
    /\ generate_calls = 0
    /\ th_reply = [kind |-> "none", text |-> ""]
    /\ th_result = ""
    /\ th_status = "not_called"
    /\ hp_prev_raw = InitialFilterState.prev_raw
    /\ hp_prev_filt = InitialFilterState.prev_filt
    /\ raw_in = <<>>
    /\ filtered_chunks = <<>>
    /\ seen_chunks = <<>>
    /\ event_queue = <<>>
    /\ em_pc = [e \in Emitters |-> "idle"]
    /\ em_event = [e \in Emitters |-> [id |-> NoEvent, type |-> ""]]
    /\ em_status = [e \in Emitters |-> "not_called"]
    /\ em_enqueued = [e \in Emitters |-> FALSE]
    /\ emitted = 0
    /\ dash_state = [wake_count |-> 0, tool_count |-> 0, exchange_count |-> 0]
    /\ dropped_events = <<>>
    /\ delivered = <<>>
    /\ ge_result = NoEvent
    /\ active_timers = <<>>
    /\ timer_counter = 0
    /\ timer_threads =
           [t \in TimerIds |->
               [pc |-> "unstarted", elapsed |-> 0, seconds |-> 0,
                wake_at |-> 0]]
    /\ tool_pc = "idle"
    /\ tool_timer = [id |-> 0, seconds |-> 0]
    /\ tool_result = [call |-> "none", value |-> "none"]
    /\ announced = [t \in TimerIds |-> 0]
    /\ clock = 0
    /\ before_cancel = {}
    /\ pending_at_cancel = {}
    /\ late_announced = {}

Next ==
    \/ AudioCallback
    \/ GetAudioChunk
    \/ CallFlushQueue
    \/ FlushLoop
    \/ FlushGetNowait
    \/ CallRecordSpeech
    \/ RecordSpeechInit
    \/ RecordSpeechTimeout
    \/ RecordSpeechChunk
    \/ CallListenAndDetect
    \/ ListenGetChunk
    \/ ListenGate
    \/ ListenTranscribe

Spec == Init /\ [][Next]_vars

\* The wake listener alone with the capture callback, the transcription
\* answering with a text.
WakeNext ==
    \/ AudioCallback
    \/ CallListenAndDetect
    \/ ListenGetChunk
    \/ ListenGate
    \/ ListenTranscribeText

WakeSpec == Init /\ [][WakeNext]_vars

\* The intent router alone: route() called over and over.
RouterNext ==
    \/ RouteStage1
    \/ RouteClassify
    \/ RouteExecute
    \/ RouteHandler

RouterSpec == Init /\ [][RouterNext]_vars

\* The main thread of main() with the input device and the shutdown signal.
MainNext ==
    \/ StartAudioCapture
    \/ StartSubsystems
    \/ SpeakBegin
    \/ SpeakEnd
    \/ MainFlush
    \/ MainListen
    \/ MainRecord
    \/ MainTranscribe
    \/ MainRoute
    \/ MainRespond
    \/ MainCycleComplete
    \/ HandleOSError
    \/ HandleException
    \/ GracefulShutdown
    \/ DeviceStops

MainSpec == Init /\ [][MainNext]_vars

\* think() called over and over.
NluNext ==
    \/ ThinkCall
    \/ ThinkCheckOllama
    \/ ThinkGenerate

NluSpec == Init /\ [][NluNext]_vars

\* The main thread with think() running inside its reply step.
RecoveryNext ==
    \/ StartAudioCapture
    \/ StartSubsystems
    \/ SpeakBegin
    \/ SpeakEnd
    \/ MainFlush
    \/ MainListen
    \/ MainRecord
    \/ MainTranscribe
    \/ MainRoute
    \/ m_pc = "respond" /\ th_status \in {"not_called", "running"} /\ NluNext
    \/ MainRespondThink
    \/ MainCycleComplete
    \/ HandleOSError
    \/ HandleException
    \/ GracefulShutdown
    \/ DeviceStops

RecoverySpec == Init /\ [][RecoveryNext]_vars

\* The emitters of dashboard events and the dashboard's broadcast loop.
DashNext ==
    \/ \E e \in Emitters : EmitCall(e)
    \/ \E e \in Emitters : EmitPutNowait(e)
    \/ \E e \in Emitters : EmitGetNowait(e)
    \/ \E e \in Emitters : EmitPutAgain(e)
    \/ GetEvent

DashSpec == Init /\ [][DashNext]_vars

\* The reminder tool: the calls of the main thread, the timer threads and
\* the passing of time.
TimerNext ==
    \/ SetTimerStart
    \/ SetTimerRegister
    \/ ListTimers
    \/ CancelAllCleanup
    \/ CancelAllClear
    \/ \E timer_id \in TimerIds : TimerThreadSleep(timer_id)
    \/ \E timer_id \in TimerIds : TimerThreadCheckIn(timer_id)
    \/ \E timer_id \in TimerIds : TimerThreadCheckFlag(timer_id)
    \/ \E timer_id \in TimerIds : TimerThreadAnnounce(timer_id)
    \/ \E timer_id \in TimerIds : TimerThreadPop(timer_id)
    \/ ClockTick

TimerSpec == Init /\ [][TimerNext]_vars

\* The two callers of the language model, as one cycle of the main loop
\* runs them: route() to its end and, when it returned None (the
\* conversation path), think().
CollaboratorNext ==
    \/ rt_status \in {"not_called", "running"} /\ RouterNext
    \/ rt_pc = "idle" /\ rt_status = "returned" /\ rt_result = JNone /\ NluNext

CollaboratorSpec == Init /\ [][CollaboratorNext]_vars

\* The capture callback and a consumer, with the samples.
FilterNext ==
    \/ AudioCallbackFilter
    \/ GetFilteredChunk

FilterSpec == Init /\ [][FilterNext]_vars

\* ======================= claims ==========================================

\* C1 (as stated): the audio queue is bounded by a fixed capacity, so once
\* more chunks have been published than the capacity the queue holds fewer
\* chunks than were published: its length stays below MaxPublished.
C1_QueueBounded == Len(audio_queue) < MaxPublished

\* C1 (amended): the queue has no capacity; every publication of the callback
\* appends the new chunk at the tail and keeps every queued chunk, so neither
\* the newest nor the oldest chunk is dropped.
C1_PublishAppendsKeepsAll ==
    [][published' # published =>
          /\ Len(audio_queue') = Len(audio_queue) + 1
          /\ SubSeq(audio_queue', 1, Len(audio_queue)) = audio_queue
          /\ audio_queue'[Len(audio_queue')].id = published']_vars

C1_Witness == Len(audio_queue) = MaxPublished

\* C2: the capture callback never blocks in put(): it never holds a chunk
\* waiting for room, whatever the queue length and whatever the main thread
\* is doing.
C2_CallbackNeverBlocks == cb_held = NoChunk

C2_Witness ==
    /\ pc \in {"flush_get", "rs_loop", "ld_collect"}
    /\ Len(audio_queue) >= 3
    /\ audio_queue[Len(audio_queue)].id = published
    /\ cb_held = NoChunk

\* C3: the first chunk the consumer obtains after flush_queue() has returned
\* was published after flush_queue() was called.
C3_FlushThenFresh ==
    first_after_flush # 0 => first_after_flush > flush_mark

C3_Witness ==
    /\ flush_mark >= 2
    /\ first_after_flush > flush_mark
    /\ flush_ret = "idle"

\* C4: the chunks the consumer receives are a subsequence of the chunks
\* published: published chunks only, in production order, none twice.
C4_ReceivedSubsequence ==
    /\ \A i \in 1..Len(received) : received[i] \in 1..published
    /\ \A i \in 1..(Len(received) - 1) : received[i] < received[i + 1]

C4_Witness ==
    /\ Len(received) >= 3
    /\ received[Len(received)] - received[1] >= Len(received)
    /\ rs_result = "utterance"

\* C5 (as stated): when record_speech returns an utterance after speech start
\* was detected, at least min_recording_seconds have elapsed since then.
C5_NeverBeforeMin ==
    (rs_result = "utterance" /\ speech_started) =>
        now - speech_start_time >= min_recording_seconds

\* C5 (amended): record_speech never stops for silence before
\* min_recording_seconds have elapsed since speech start was detected; only
\* the max_recording_seconds ceiling returns an utterance earlier.
C5_SilenceStopAfterMin ==
    rs_stop = "silence" =>
        /\ rs_result = "utterance"
        /\ speech_started
        /\ now - speech_start_time >= min_recording_seconds

C5_Witness ==
    /\ rs_stop = "silence"
    /\ silence_start = speech_start_time
    /\ now - speech_start_time = min_recording_seconds

\* C6: record_speech has returned by max_recording_seconds plus one chunk
\* interval after it was called.
C6_TerminatesByCeiling ==
    rs_result = "running" =>
        now - rs_call_time <= max_recording_seconds + chunk_interval

\* C7: while Recording, the recorder stops for silence exactly at the first
\* chunk at which the time since the speech-start chunk is at least
\* min_recording_seconds and the time since the first quiet chunk after the
\* last loud chunk is at least silence_duration_to_stop: a silence stop
\* happens at such a chunk, and the recorder never reads on past one.
C7_StopsAtFirstQualifyingChunk ==
    LET h == all_chunks
        n == Len(h)
        loud == {i \in 1..n : h[i].energy > silence_threshold}
        first_loud == CHOOSE i \in loud : \A j \in loud : i <= j
        last_loud == CHOOSE i \in loud : \A j \in loud : j <= i
        both == /\ loud # {}
                /\ last_loud < n
                /\ h[n].t - h[first_loud].t >= min_recording_seconds
                /\ h[n].t - h[last_loud + 1].t >= silence_stop
    IN  /\ rs_stop = "silence" => both
        /\ (pc = "rs_loop" /\ speech_started) => ~both

C7_Witness ==
    /\ rs_stop = "silence"
    /\ speech_start_time = recording_start
    /\ silence_start = speech_start_time + 3
    /\ now = speech_start_time + 5
    /\ Len(all_chunks) = 3

\* C8: record_speech returns no utterance when no chunk it read exceeded the
\* silence threshold.
C8_NoSpeechAborts ==
    rs_result = "utterance" =>
        \E i \in 1..Len(all_chunks) : all_chunks[i].energy > silence_threshold

\* C9: the utterance of record_speech holds no chunk that was published
\* before record_speech was called.
C9_UtteranceIsFresh ==
    \A i \in 1..Len(all_chunks) : all_chunks[i].id > rs_call_mark

C9_Witness ==
    /\ rs_result = "utterance"
    /\ rs_call_mark >= 2
    /\ Len(all_chunks) >= 1

\* C10: when the window's average RMS is below min_rms or its peak RMS is
\* below peak_rms, listen_and_detect returns False and transcribe is not
\* called.
C10_GateShortCircuits ==
    (/\ Len(chunk_energies) = chunks_per_window
     /\ \/ SeqSum(chunk_energies) < 15 * Len(chunk_energies)
        \/ \A i \in 1..Len(chunk_energies) : chunk_energies[i] < 80)
    => /\ transcribe_calls = 0
       /\ pc # "ld_transcribe"
       /\ ld_result \in {"running", "false"}

C10_Witness ==
    /\ Len(chunk_energies) = chunks_per_window
    /\ SeqSum(chunk_energies) >= 15 * Len(chunk_energies)
    /\ \A i \in 1..Len(chunk_energies) : chunk_energies[i] < 80
    /\ ld_result = "false"
    /\ pc = "idle"
    /\ transcribe_calls = 0

\* C11: every call of listen_and_detect takes exactly chunks_per_window
\* chunks from the queue, whatever it returns: it has collected that many
\* when it returns, and each chunk it collects is one chunk taken.
C11_ListenTakesExactlyWindow ==
    [][/\ ld_result' \in {"true", "false"} =>
              Len(chunk_energies') = chunks_per_window
       /\ pc \in {"ld_collect", "ld_transcribe"} =>
              Len(received') - Len(received) =
                  Len(chunk_energies') - Len(chunk_energies)]_vars

C11_Witness ==
    /\ ld_result = "false"
    /\ transcribe_calls = 1
    /\ ld_heard.text = "Thank you."
    /\ Len(chunk_energies) = chunks_per_window
    /\ Len(received) = 2 * chunks_per_window

\* C12: when the energy gate has passed, listen_and_detect returns True
\* exactly when transcribe returned a text whose lowercased form without
\* punctuation is no hallucination string, has at least 3 characters and
\* contains a trigger phrase; otherwise it returns False.
C12_TrueIffTriggerHeard ==
    (ld_result \in {"true", "false"} /\ transcribe_calls = 1) =>
        LET text == CleanText(ld_heard.text)
        IN  ld_result = "true" <=>
                /\ ~ld_heard.raised
                /\ text \notin hallucinations
                /\ Len(text) >= 3
                /\ \E phrase \in trigger_phrases : Contains(text, phrase)

C12_Witness ==
    /\ ld_result = "true"
    /\ transcribe_calls = 1
    /\ ld_heard.text = "Okay Jalvis, open Safari"
\* C13: route() evaluates the Stage-1 keyword classifier before Stage 2 for
\* every utterance: a request to the collaborator is made only after
\* _keyword_route has been evaluated on the utterance and returned None, so
\* an utterance Stage 1 classifies has no collaborator call; 'what time is
\* it' yields system_info/time with zero collaborator calls.
C13_Stage1BeforeStage2 ==
    [][/\ llm_calls' > llm_calls =>
              /\ keyword_match = keyword_route(user_text)
              /\ keyword_match = JNone
       /\ keyword_match' # JNone => llm_calls' = 0
       /\ (user_text' = "what time is it" /\ rt_status' = "returned") =>
              /\ last_route' = Classification("system_info", "time", <<>>)
              /\ llm_calls' = 0]_vars

C13_Witness ==
    /\ user_text = "what time is it"
    /\ rt_status = "returned"
    /\ llm_calls = 0
    /\ Len(handler_calls) = 1
    /\ handler_calls[1].tool = JStr("system_info")
    /\ handler_calls[1].action = JStr("time")

\* C14: for every malformed Stage-2 response (truncated or unbalanced
\* braces, garbage, no opening brace) and for every collaborator failure,
\* classify() returns {"tool": "none"} and does not raise.
C14_MalformedYieldsNone ==
    (/\ llm_calls = 1
     /\ \/ llm_response.kind \in LlmFailures
        \/ llm_response.kind = "text" /\ llm_response.text \in MalformedTexts)
        => cl_result = [exc |-> "", value |-> NoneTool]

\* C15: whenever the collaborator's response is a valid JSON object
\* followed by arbitrary text, classify() returns that object, whatever
\* the object is.
C15_TrailingProseTolerated ==
    \A o \in JsonObjects, t \in TrailingTexts :
        (llm_calls = 1
         /\ llm_response = [kind |-> "text", text |-> o.text \o t])
            => cl_result = [exc |-> "", value |-> o.value]

\* C16: route() never raises: it returns a string or None for every
\* utterance, collaborator answer and handler behaviour, and the generic
\* message when the handler raised.
C16_RouteNeverRaises ==
    /\ rt_status \in {"not_called", "running", "returned"}
    /\ rt_status = "returned" => rt_result.type \in {"str", "NoneType"}
    /\ \A i \in 1..Len(handler_calls) :
           handler_calls[i].outcome = "raises" =>
               rt_result = SomethingWentWrong

C18_SpeakBlocksThenFlush ==
    /\ say_running => m_pc = "speak"
    /\ unflushed => m_pc \in {"speak", "flush", "exited"}
    /\ ~read_unflushed

C18_Witness ==
    /\ read_after = "response"
    /\ m_pc = "speak"
    /\ m_site = "yes"
    /\ ~read_unflushed

\* C19 (as stated): the process terminates only on device-open failure at
\* startup, on failure to reopen the device during recovery, or on the
\* shutdown signal.
C19_TerminatesOnlyOnDeviceOrSignal ==
    exit_cause \in {"", "device_open_failure", "recovery_failure", "signal"}

\* C19 (amended): the process terminates only on a failure at startup (the
\* device cannot be opened, or another subsystem cannot be constructed), on
\* a failure of recovery, or on the shutdown signal; a fault raised inside a
\* main-loop cycle is caught, and after its handler the loop is at the next
\* wake listen.
C19_TerminationCauses ==
    [][/\ exit_cause' # exit_cause =>
              \/ exit_cause' = "device_open_failure" /\ m_pc = "start"
              \/ exit_cause' = "startup_failure" /\ m_pc = "init_subsystems"
              \/ exit_cause' = "recovery_failure" /\ m_pc = "except_oserror"
              \/ exit_cause' = "signal"
       /\ (m_pc \in {"except_oserror", "except_exception"} /\ m_pc' # m_pc) =>
              m_pc' \in {"listen", "exited"}
       /\ m_pc' = "exited" => exit_cause' # ""]_vars

C19_Witness ==
    /\ m_fault = "Exception"
    /\ m_pc = "listen"
    /\ exit_cause = ""
    /\ read_after = "yes"

\* C20: on the shutdown signal and on device recovery close() leaves the
\* audio stream closed whatever state it was in, so at most one input
\* stream is ever open and none after a shutdown.
C20_AtMostOneOpenStream ==
    /\ Cardinality(OpenStreams(streams)) <= 1
    /\ exit_cause = "signal" => OpenStreams(streams) = {}

\* C21: at most one utterance is in flight.  record_speech is called only
\* when no recorded utterance is still being transcribed, routed, executed
\* or spoken, and the wake listener is called (and so reads chunks) only
\* when no utterance is in flight and no wake trigger's cycle is unfinished.
C21_OneUtteranceInFlight ==
    /\ in_flight <= 1
    /\ m_pc = "record" => in_flight = 0
    /\ m_pc = "listen" => in_flight = 0 /\ ~wake_pending
    /\ in_flight = 1 => wake_pending

\* A second wake trigger reaches record_speech after a first utterance
\* was processed to its spoken response.
C21_Witness ==
    /\ m_pc = "record"
    /\ read_after = "response"
    /\ wake_pending
    /\ in_flight = 0

\* C22: collaborator calls are not retried without bound.  One think()
\* call makes at most two generate requests (the loop variable of
\* _call_ollama never passes its second value) and one route() call makes
\* at most one classification request.
C22_BoundedCollaboratorCalls ==
    /\ generate_calls <= 2
    /\ th_attempt <= 1
    /\ generate_calls <= th_attempt + 1
    /\ llm_calls <= 1

\* route() asked the classifier once and think() then made its second
\* generate request after a failed first one.
C22_Witness ==
    /\ llm_calls = 1
    /\ rt_status = "returned"
    /\ generate_calls = 2
    /\ th_attempt = 1
    /\ th_status = "returned"

\* C23 (as stated): a collaborator failure during think(), in the
\* reachability check or in the generate call, is reported as a fallback
\* message: no exception leaves think(), and what think() returns is a
\* non-empty string.
C23_ThinkNeverRaises ==
    /\ th_status \in {"not_called", "running", "returned"}
    /\ th_status = "returned" => th_result # ""

\* Every sample the callback has delivered so far, in order, whether a
\* consumer has obtained it or it is still queued.
RECURSIVE Flatten(_)
Flatten(chunks) ==
    IF chunks = <<>> THEN <<>> ELSE Head(chunks) \o Flatten(Tail(chunks))
DeliveredSamples == Flatten(seen_chunks \o filtered_chunks)

\* The float values the filter computes for the whole input of the capture.
Unclipped == FilterLoop(raw_in, 1, <<>>, InitialFilterState.prev_raw,
                        InitialFilterState.prev_filt).filtered

\* C24: every chunk placed on the audio queue is the output of the
\* high-pass filter clamped to the int16 range: each queued or obtained
\* sample lies in [-32768, 32767] and is the clamped filter value of its
\* input sample, so no raw chunk is queued.
C24_QueuedChunksFilteredAndClamped ==
    /\ Len(DeliveredSamples) = Len(raw_in)
    /\ \A j \in 1..Len(DeliveredSamples) :
           /\ DeliveredSamples[j] >= int16_min
           /\ DeliveredSamples[j] <= int16_max
           /\ DeliveredSamples[j] = AsInt16(Clip(Unclipped[j]))

\* A consumer obtained a chunk that differs from the raw chunk and holds a
\* sample the clamp brought down to 32767.
C24_Witness ==
    /\ seen_chunks # <<>>
    /\ Flatten(seen_chunks) # SubSeq(raw_in, 1, Len(Flatten(seen_chunks)))
    /\ \E j \in 1..Len(Flatten(seen_chunks)) :
           /\ Unclipped[j] > int16_max * Scale
           /\ Flatten(seen_chunks)[j] = int16_max

\* C25: the filter state is updated once per input sample, in order, and
\* carried across chunks: the samples delivered chunk by chunk are those
\* of filtering the whole input as one chunk, and the saved state is the
\* state after the last input sample.
C25_ChunkingInvariant ==
    LET whole == highpass_filter(raw_in, InitialFilterState.prev_raw,
                                 InitialFilterState.prev_filt)
    IN  /\ DeliveredSamples = whole.out
        /\ hp_prev_raw = whole.prev_raw
        /\ hp_prev_filt = whole.prev_filt
        /\ raw_in # <<>> => hp_prev_raw = raw_in[Len(raw_in)]

\* Two chunks were filtered and the second came out differently from the
\* way it would have with a fresh state.
C25_Witness ==
    /\ Len(raw_in) = 2 * chunk_samples
    /\ hp_prev_filt # 0
    /\ SubSeq(DeliveredSamples, chunk_samples + 1, 2 * chunk_samples)
           # highpass_filter(SubSeq(raw_in, chunk_samples + 1,
                                    2 * chunk_samples),
                             InitialFilterState.prev_raw,
                             InitialFilterState.prev_filt).out

\* C26: from the initial filter state, chunks of all-zero samples come out
\* all zero and leave the filter state at zero.
C26_ZeroInZeroOut ==
    (\A j \in 1..Len(raw_in) : raw_in[j] = 0)
        => /\ \A j \in 1..Len(DeliveredSamples) : DeliveredSamples[j] = 0
           /\ hp_prev_raw = 0
           /\ hp_prev_filt = 0

\* A chunk of zeros was filtered and queued.
C26_Witness ==
    /\ Len(raw_in) >= chunk_samples
    /\ \A j \in 1..Len(raw_in) : raw_in[j] = 0
    /\ Len(DeliveredSamples) = Len(raw_in)
    /\ filtered_chunks # <<>>

\* C27: the last classification is not carried across utterances.  The
\* main loop reads last_route only after route() returned a result that is
\* not empty, and last_route is then the classification route() dispatched
\* for this utterance: the Stage-1 result if Stage 1 matched, otherwise
\* the Stage-2 result.
C27_LastRouteIsCurrent ==
    (rt_pc = "idle" /\ rt_status = "returned" /\ Truthy(rt_result))
        => /\ last_route = Dispatched
           /\ KeywordMatched(keyword_match) => last_route = KeywordRoutes[user_text]
           /\ ~KeywordMatched(keyword_match) => llm_calls = 1

\* route() returned a tool result for an utterance classified by Stage 2
\* while last_route held another classification from an earlier utterance.
C27_Witness ==
    /\ rt_pc = "idle"
    /\ rt_status = "returned"
    /\ Truthy(rt_result)
    /\ ~KeywordMatched(keyword_match)
    /\ rt_entry_route # <<>>
    /\ rt_entry_route # last_route

\* C28 (as stated): every consumer wait on the audio queue has a timeout
\* and a timeout is "no data yet".  A consumer at a chunk read with the
\* queue empty can go on by itself, without a chunk from the producer:
\* the recorder by its timeout, the wake listener by a step of its own.
C28_EveryWaitTimesOut ==
    /\ (pc = "rs_loop" /\ audio_queue = <<>> /\ now + get_timeout <= MaxTime)
           => ENABLED RecordSpeechTimeout
    /\ (pc = "ld_collect" /\ ~ListenWindowFull(chunk_energies)
            /\ audio_queue = <<>>)
           => ENABLED (ListenGetChunk \/ ListenGate \/ ListenTranscribe)

\* C29: within one record_speech call, once the start of speech was
\* detected the recorder does not return to awaiting speech, the
\* speech-start time is not changed, and the call does not end with the
\* no-speech abort.
C29_RecordingNeverReverts ==
    [][(pc = "rs_loop" /\ speech_started)
           => /\ speech_started'
              /\ speech_start_time' = speech_start_time
              /\ rs_stop' \in {"none", "silence", "ceiling"}
              /\ rs_result' # "none"]_vars

\* Speech had started and a later loud chunk, read at a later time, was
\* collected.
C29_Witness ==
    /\ speech_started
    /\ \E j \in 1..Len(all_chunks) :
           /\ Loud(all_chunks[j].energy)
           /\ all_chunks[j].t > speech_start_time

\* The chunks record_speech has read from the queue since its flush.
ReadSinceFlush ==
    IF first_after_flush = 0 THEN <<>>
    ELSE LET k == CHOOSE k \in 1..Len(received) :
                      received[k] = first_after_flush
         IN  SubSeq(received, k, Len(received))

\* The chunks of the utterance, by id.
CollectedIds == [i \in 1..Len(all_chunks) |-> all_chunks[i].id]

\* C30 (as stated): the utterance record_speech returns is the
\* concatenation, in arrival order, of every chunk it read from the queue
\* after its flush, for the silence stop and for the ceiling stop.
C30_UtteranceIsEveryChunkRead ==
    [][(pc = "rs_loop" /\ pc' = "idle" /\ rs_result' = "utterance")
           => CollectedIds' = ReadSinceFlush']_vars

\* C30 (amended): at the silence stop the utterance holds every chunk read
\* after the flush, in arrival order; at the ceiling stop it holds every
\* chunk read but the last one, the chunk whose read found the ceiling
\* passed.
C30_UtteranceIsEveryCollectedChunk ==
    [][(pc = "rs_loop" /\ pc' = "idle" /\ rs_result' = "utterance")
           => /\ rs_stop' \in {"silence", "ceiling"}
              /\ rs_stop' = "silence" => CollectedIds' = ReadSinceFlush'
              /\ rs_stop' = "ceiling"
                     => /\ ReadSinceFlush' # <<>>
                        /\ CollectedIds' =
                               SubSeq(ReadSinceFlush', 1,
                                      Len(ReadSinceFlush') - 1)]_vars

\* record_speech returned an utterance at the ceiling and the chunk it read
\* last is not in it.
C30_Witness ==
    /\ pc = "idle"
    /\ rs_result = "utterance"
    /\ rs_stop = "ceiling"
    /\ Len(ReadSinceFlush) = Len(all_chunks) + 1
    /\ ReadSinceFlush[Len(ReadSinceFlush)] \notin
           {all_chunks[i].id : i \in 1..Len(all_chunks)}

\* ---- C31 ------------------------------------------------------------------
\* route() has run Stage 1 on user_text and keyword_match holds its result.
Stage1Done == rt_status # "not_called"

\* C31: what Stage 1 returns is either None or a classification with a tool
\* name other than "none", an action name and a params dict; a
\* classification with tool "none" is never returned.
C31_Stage1FullyFormedOrNone ==
    Stage1Done =>
        \/ keyword_match = JNone
        \/ /\ DOMAIN keyword_match = {"tool", "action", "params"}
           /\ keyword_match.tool.type = "str"
           /\ keyword_match.tool.str \notin {"none", ""}
           /\ keyword_match.action.type = "str"
           /\ keyword_match.action.str # ""
           /\ keyword_match.params.type = "dict"

\* Stage 1 has returned a classification with an extracted parameter.
C31_Witness ==
    /\ Stage1Done
    /\ keyword_match # JNone
    /\ keyword_match.tool = JStr("mac_control")
    /\ keyword_match.params = JDict([app |-> JStr("Brave")])

\* ---- C32 ------------------------------------------------------------------
\* The position of a Stage-1 category in the order of the code, read from
\* the classification it returns; 0 for None.  The three search categories
\* return the same classification and share position 8, messaging is 11.
CategoryOf(match) ==
    IF match = JNone THEN 0
    ELSE LET tool == match.tool.str
             action == match.action.str
         IN  IF tool = "system_info"
             THEN (IF action = "time" THEN 1
                   ELSE IF action = "date" THEN 2 ELSE 3)
             ELSE IF tool = "vision"
             THEN (IF action = "ocr" THEN 4
                   ELSE IF action = "describe_screen" THEN 5 ELSE 6)
             ELSE IF tool = "code_executor" THEN 7
             ELSE IF tool = "web_search" THEN 8
             ELSE IF tool = "reminder" THEN 18
             ELSE IF action = "open_app" THEN 12
             ELSE IF action = "close_app" THEN 13
             ELSE IF action \in {"volume_mute", "volume_set", "volume_up",
                                 "volume_down"} THEN 14
             ELSE IF action \in {"brightness_up", "brightness_down"} THEN 15
             ELSE IF action = "screenshot" THEN 16
             ELSE 17

\* The text passed the categories before the app-launch one.
ReachesAppLaunch ==
    /\ Stage1Done
    /\ CategoryOf(keyword_match) \notin 1..10
    /\ ~MessagingPhrase(Lower(user_text))

\* Whether the keywords of category k (app launch 12 .. brightness 15) occur.
CategoryKeywords(k, text_lower) ==
    IF k = 12 THEN AppLaunchKeywords(text_lower)
    ELSE IF k = 13 THEN CloseKeywords(text_lower)
    ELSE IF k = 14 THEN VolumeKeywords(text_lower)
    ELSE BrightnessKeywords(text_lower)

\* Whether category k, its keywords found, returns a classification.
CategoryYields(k, text_lower) ==
    /\ k = 12 => extract_app_name(text_lower) # ""
    /\ k = 13 => CloseAppName(text_lower) # ""

Earliest(ks) == CHOOSE k \in ks : \A other \in ks : k <= other

C33_MessagingGoesToStage2 ==
    (/\ Stage1Done
     /\ MessagingPhrase(Lower(user_text))
     /\ CategoryOf(keyword_match) \notin 1..10) =>
        /\ keyword_match = JNone
        /\ rt_pc = "classify" \/ llm_calls = 1

\* A messaging text that also has volume keywords has been classified by
\* Stage 2.
C33_Witness ==
    /\ Stage1Done
    /\ MessagingPhrase(Lower(user_text))
    /\ VolumeKeywords(Lower(user_text))
    /\ keyword_match = JNone
    /\ llm_calls = 1
    /\ llm_response.kind = "text"

\* ---- C34 ------------------------------------------------------------------
\* C34: after a cycle that a wake trigger began was abandoned by an
\* unexpected error, the wake listener reads no chunk before the capture
\* queue was flushed.
C34_AbandonedCycleFlushedBeforeListening == ~read_abandoned

\* ---- C35 ------------------------------------------------------------------
\* C35: the main loop enters the device recovery only for a fault of a read
\* from the capture (the wake listener's window, the recorder), never for a
\* fault of routing or of the reply step with its collaborator calls.
C35_RecoveryOnlyForDeviceErrors ==
    m_pc = "except_oserror" => m_fault_site \in {"listen", "record"}

\* ---- C36 ------------------------------------------------------------------
\* The next step of emitter e's call of emit.
EmitStep(e) == EmitPutNowait(e) \/ EmitGetNowait(e) \/ EmitPutAgain(e)

\* C36: whatever the other emitter and the consumer do meanwhile, no
\* exception leaves emit, and a thread inside emit can always take its next
\* step (it never waits for the queue).
C36_EmitNeverBlocksNorRaises ==
    \A e \in Emitters :
        /\ em_status[e] \in {"not_called", "running", "returned"}
        /\ em_pc[e] # "idle" => ENABLED EmitStep(e)

\* ---- C37 ------------------------------------------------------------------
\* C37: the event queue never holds more events than its capacity, and an
\* emit that has returned has put its event on the queue: on overflow the
\* event lost is the oldest queued one, never the new one.
C37_NewEventNeverLost ==
    /\ Len(event_queue) <= EventQueueSize
    /\ \A e \in Emitters : em_status[e] = "returned" => em_enqueued[e]

\* ---- C38 ------------------------------------------------------------------
\* C38: no timer announces twice, and a timer that was accepted, and that no
\* _cancel_all call followed, has announced once when its thread has ended.
C38_AcceptedTimerAnnouncesOnce ==
    \A t \in TimerIds :
        /\ announced[t] <= 1
        /\ (timer_threads[t].pc = "done" /\ t \notin before_cancel) =>
               announced[t] = 1

\* ---- C39 ------------------------------------------------------------------
\* C39: once _cancel_all has returned, no timer set before the call
\* announces, and the count returned is the number of timers that had not
\* announced when it was called.
C39_CancelAllPreventsAndCounts ==
    /\ late_announced = {}
    /\ (tool_pc = "idle" /\ tool_result.call = "cancel") =>
           tool_result.value = Cardinality(pending_at_cancel)

====
